---- MODULE Spec2Model ----
(***************************************************************************)
(* A model of astrbot_plugin_novel: the idea governance pipeline           *)
(* (idea_manager.py, vote_manager.py and their commands in main.py) and    *)
(* the chat-novel pipeline (chat_novel.py and the group-message handler).  *)
(* One group (session) is modelled; handlers run one at a time, and every  *)
(* backend call is an input of the handler that makes it.                  *)
(*                                                                         *)
(* Representation:                                                         *)
(*   - ids made by generate_id are fresh; here the n-th idea (vote) gets   *)
(*     id n, and 0 stands for the empty string (no id);                    *)
(*   - an idea's content is a sequence of tokens, so that "+=" on the      *)
(*     string is Append and the original text stays a recognisable prefix; *)
(*   - weighted_avg is kept in tenths (750 is 75.0);                       *)
(*   - time is counted in whole vote durations;                            *)
(*   - a buffered message carries the number of its arrival in place of    *)
(*     its timestamp, so that two messages are never the same message.     *)
(***************************************************************************)
EXTENDS Integers, Sequences, FiniteSets, TLC

VARIABLES ideas, votes, now, pc, last, novel, messages, sent, cfg, book, groups, inflight, disk

vars == <<ideas, votes, now, pc, last, novel, messages, sent, cfg, book, groups, inflight, disk>>

ideaVars == <<ideas, votes, now>>
chatVars == <<novel, messages, sent, cfg>>
\* What the model keeps beside the documents of the one group above: the
\* chat-novel documents of every group with the lists of the module-level
\* default they are loaded from, and the handlers that are awaiting a backend
\* call, or in the middle of a save, with what they hold; and the two files
\* of one save, the document and its temporary file.
otherVars == <<groups, inflight, disk>>

NoGroups == [files |-> <<>>, shared |-> <<>>]
NoFlight == <<>>
\* A save that writes into the document itself.
InPlace == "target"
Absent == [state |-> "absent", data |-> 0]
NoDisk == [target |-> Absent, tmp |-> Absent]

\* ---------------------------------------------------------------- bounds
MaxIdeas == 2
MaxTime == 1
MaxContent == 3
MaxMsgs == 3
MaxThreshold == 2
MaxChapters == 2
MaxVotes == 2
MaxScenes == 2
MaxRevisions == 2
MaxChars == 2
MaxSettings == 2

\* ------------------------------------------------------- program constants
ScoreThreshold == 70
VoteDuration == 1
SummaryCap == 500
SummaryHead == 200
DefaultSummaryLen == 7

Users == {"u1", "u2", "u3"}
GovUsers == {"u1"}
Contents == {"x"}
Suggestions == {"s"}
OptionInputs == {"", "A", "B", "C", "Z"}

\* What one judge's call can come to: the call raises ("fail"), the answer
\* holds no JSON object with an "overall" key ("unparsable"), or it parses
\* and carries a number ("ok") or something that is not a number ("nan").
JudgeScores == {60, 80}
JudgeOutcomes ==
    {[kind |-> "fail", overall |-> 0], [kind |-> "unparsable", overall |-> 0],
     [kind |-> "nan", overall |-> 0]}
    \cup {[kind |-> "ok", overall |-> s] : s \in JudgeScores}

\* What the conflict-check call can come to.
ConflictOutcomes ==
    {[kind |-> "fail", has_conflict |-> FALSE, suggestion |-> ""],
     [kind |-> "unparsable", has_conflict |-> FALSE, suggestion |-> ""],
     [kind |-> "ok", has_conflict |-> FALSE, suggestion |-> ""]}
    \cup {[kind |-> "ok", has_conflict |-> TRUE, suggestion |-> s] : s \in Suggestions}

NoInfo == [kind |-> "none", has_conflict |-> FALSE, suggestion |-> ""]
NoResult == [winner |-> "", tally |-> <<>>, total_votes |-> 0]
Idle == [op |-> "idle", applied |-> FALSE]
AtRest == [at |-> "idle", id |-> 0, report |-> NoInfo]

\* ---------------------------------------------------------------- helpers
RECURSIVE SumSeq(_)
SumSeq(s) == IF s = <<>> THEN 0 ELSE Head(s) + SumSeq(Tail(s))

\* The first of the indices S of a list, 0 when there is none (the
\* "for x in list: if ...: break" scans of the source).
FirstIndex(S) ==
    IF S = {} THEN 0 ELSE CHOOSE i \in S : \A j \in S : i <= j

Min(x, y) == IF x <= y THEN x ELSE y

FindById(s, id) == FirstIndex({i \in 1..Len(s) : s[i].id = id})

Text(c) == [kind |-> "text", val |-> c]
Amendment(label) == [kind |-> "amend", val |-> label]

\* round(avg, 1) of sum/n, in tenths. Python rounds a tie to the even digit;
\* with integer scores a tie needs n to be a multiple of 4.
Round1(sum, n) ==
    LET q == (10 * sum) \div n
        r == (10 * sum) % n
    IN  IF 2 * r > n THEN q + 1
        ELSE IF 2 * r < n THEN q
        ELSE IF q % 2 = 0 THEN q ELSE q + 1

\* ------------------------------------------------------------ IdeaManager
\* A submit that stores the idea as already approved.
submit_idea_approved(is, content) ==
    Append(is, [id |-> Len(is) + 1,
                content |-> <<Text(content)>>,
                scores |-> <<>>,
                weighted_avg |-> 0,
                status |-> "approved",
                conflict_info |-> NoInfo])

submit_idea(is, content) ==
    Append(is, [id |-> Len(is) + 1,
                content |-> <<Text(content)>>,
                scores |-> <<>>,
                weighted_avg |-> 0,
                status |-> "pending",
                conflict_info |-> NoInfo])

\* The scores list score_idea builds: one entry per judge whose call returned
\* and whose answer parsed with an "overall" key, in judge order.
ValidScores(outs) ==
    LET Counted(o) == o.kind \in {"ok", "nan"} IN SelectSeq(outs, Counted)

\* sum(s["score"] ...) raises when a score is not a number.
ScoreRaises(outs) == \E i \in 1..Len(outs) : outs[i].kind = "nan"

\* A scoring that divides by the number of judges asked: a judge that failed
\* counts as a zero.
score_idea_zero_filled(is, id, outs) ==
    LET k == FindById(is, id)
        sc == ValidScores(outs)
        vals == [i \in 1..Len(sc) |-> sc[i].overall]
    IN  IF k = 0 THEN is
        ELSE IF sc # <<>>
             THEN [is EXCEPT ![k].scores = vals,
                             ![k].weighted_avg = Round1(SumSeq(vals), Len(outs))]
             ELSE [is EXCEPT ![k].weighted_avg = 0]

\* A scoring that lets an idea no judge scored pass.
score_idea_passing_unscored(is, id, outs) ==
    LET k == FindById(is, id)
        sc == ValidScores(outs)
        vals == [i \in 1..Len(sc) |-> sc[i].overall]
    IN  IF k = 0 THEN is
        ELSE IF sc # <<>>
             THEN [is EXCEPT ![k].scores = vals,
                             ![k].weighted_avg = Round1(SumSeq(vals), Len(vals))]
             ELSE [is EXCEPT ![k].weighted_avg = 1000]

score_idea(is, id, outs) ==
    LET k == FindById(is, id)
        sc == ValidScores(outs)
        vals == [i \in 1..Len(sc) |-> sc[i].overall]
    IN  IF k = 0 THEN is
        ELSE IF sc # <<>>
             THEN [is EXCEPT ![k].scores = vals,
                             ![k].weighted_avg = Round1(SumSeq(vals), Len(vals))]
             ELSE [is EXCEPT ![k].weighted_avg = 0]

\* A report that takes a failed check for a conflict.
ConflictReportBlocking(out) ==
    IF out.kind = "ok" THEN out
    ELSE [kind |-> "default", has_conflict |-> TRUE, suggestion |-> "default"]

\* The report check_conflict returns.
ConflictReport(out) ==
    IF out.kind = "ok" THEN out
    ELSE [kind |-> "default", has_conflict |-> FALSE, suggestion |-> "default"]

check_conflict(is, id, out) ==
    LET k == FindById(is, id) IN
    IF k = 0 \/ out.kind # "ok" THEN is
    ELSE [is EXCEPT ![k].conflict_info = out,
                    ![k].status = IF out.has_conflict THEN "conflict" ELSE @]

approve_idea(is, id) ==
    LET k == FindById(is, id) IN
    IF k = 0 THEN is ELSE [is EXCEPT ![k].status = "approved"]

reject_idea(is, id) ==
    LET k == FindById(is, id) IN
    IF k = 0 THEN is ELSE [is EXCEPT ![k].status = "rejected"]

\* apply_vote_result: the message it returns, and the ideas it leaves.
apply_vote_ret(is, vote) ==
    IF vote.related_idea_id = 0 THEN "no_related_idea"
    ELSE IF FindById(is, vote.related_idea_id) = 0 THEN "idea_not_found"
    ELSE IF vote.result.winner = "A" THEN "approved"
    ELSE IF vote.result.winner = "B" THEN "rejected"
    ELSE IF vote.result.winner = "C" THEN "compromise"
    ELSE "unknown_result"

\* A resolution whose compromise replaces the content instead of appending.
apply_vote_result_replacing(is, vote) ==
    LET k == FindById(is, vote.related_idea_id)
        winner == vote.result.winner
    IN  IF vote.related_idea_id = 0 \/ k = 0 THEN is
        ELSE IF winner = "A" THEN [is EXCEPT ![k].status = "approved"]
        ELSE IF winner = "B" THEN [is EXCEPT ![k].status = "rejected"]
        ELSE IF winner = "C"
             THEN [is EXCEPT ![k].status = "approved",
                             ![k].content = <<Amendment(vote.options[3].label)>>]
        ELSE is

apply_vote_result(is, vote) ==
    LET k == FindById(is, vote.related_idea_id)
        winner == vote.result.winner
    IN  IF vote.related_idea_id = 0 \/ k = 0 THEN is
        ELSE IF winner = "A" THEN [is EXCEPT ![k].status = "approved"]
        ELSE IF winner = "B" THEN [is EXCEPT ![k].status = "rejected"]
        ELSE IF winner = "C"
             THEN [is EXCEPT ![k].status = "approved",
                             ![k].content = Append(@, Amendment(vote.options[3].label))]
        ELSE is

\* ------------------------------------------------------------ VoteManager
ConflictOptions(report) ==
    <<[key |-> "A", label |-> "accept_new"],
      [key |-> "B", label |-> "keep_old"],
      [key |-> "C", label |-> report.suggestion]>>

\* ballots is a dict from user id to option key: a function on Users, with ""
\* for a user who has no ballot.
NoBallots == [u \in Users |-> ""]

create_vote(vs, options, related_idea_id, t) ==
    Append(vs, [id |-> Len(vs) + 1,
                options |-> options,
                ballots |-> NoBallots,
                status |-> "open",
                result |-> NoResult,
                related_idea_id |-> related_idea_id,
                closes_at |-> t + VoteDuration])

Voters(v) == {u \in Users : v.ballots[u] # ""}

ValidKeys(v) == {v.options[i].key : i \in 1..Len(v.options)}

CastOn(v, u, key) == [v EXCEPT !.ballots[u] = key]

\* A cast that takes any key.
cast_vote_ok_any_key(vs, id, u, key) ==
    LET k == FindById(vs, id) IN
    k # 0 /\ vs[k].status = "open"

\* A cast that does not look at the status of the vote.
cast_vote_ok_any_status(vs, id, u, key) ==
    LET k == FindById(vs, id) IN
    k # 0 /\ key \in ValidKeys(vs[k])

cast_vote_ok(vs, id, u, key) ==
    LET k == FindById(vs, id) IN
    k # 0 /\ vs[k].status = "open" /\ key \in ValidKeys(vs[k])

cast_vote(vs, id, u, key) ==
    LET k == FindById(vs, id) IN
    IF cast_vote_ok(vs, id, u, key) THEN [vs EXCEPT ![k] = CastOn(vs[k], u, key)]
    ELSE vs

\* A tally of the options that got a ballot only.
TallyOfCast(v) ==
    LET Cast(o) == \E u \in Users : v.ballots[u] = o.key
        cast == SelectSeq(v.options, Cast)
    IN  [i \in 1..Len(cast) |->
            [key |-> cast[i].key,
             n |-> Cardinality({u \in Users : v.ballots[u] = cast[i].key})]]

\* tally: one counter per declared option, in declaration order.
Tally(v) ==
    [i \in 1..Len(v.options) |->
        [key |-> v.options[i].key,
         n |-> Cardinality({u \in Users : v.ballots[u] = v.options[i].key})]]

\* A scan that keeps the last of the keys whose count is the greatest.
WinnerLast(tally) ==
    IF tally = <<>> THEN ""
    ELSE LET best == {i \in 1..Len(tally) : \A j \in 1..Len(tally) : tally[j].n <= tally[i].n}
         IN  tally[CHOOSE i \in best : \A j \in best : j <= i].key

\* A winner only when a ballot was cast.
WinnerOfBallots(tally) ==
    IF \A i \in 1..Len(tally) : tally[i].n = 0 THEN ""
    ELSE tally[FirstIndex({i \in 1..Len(tally) :
                              \A j \in 1..Len(tally) : tally[j].n <= tally[i].n})].key

\* max(tally, key=...) returns the first key, in the dict's order, whose count
\* is the greatest.
Winner(tally) ==
    IF tally = <<>> THEN ""
    ELSE tally[FirstIndex({i \in 1..Len(tally) :
                              \A j \in 1..Len(tally) : tally[j].n <= tally[i].n})].key

Closed(v) ==
    [v EXCEPT !.status = "closed",
              !.result = [winner |-> Winner(Tally(v)), tally |-> Tally(v),
                          total_votes |-> Cardinality(Voters(v))]]

close_vote(vs, id) ==
    LET k == FindById(vs, id) IN
    IF k = 0 \/ vs[k].status = "closed" THEN vs
    ELSE [vs EXCEPT ![k] = Closed(vs[k])]

ActiveVotes(vs) == LET Open(v) == v.status = "open" IN SelectSeq(vs, Open)

\* get_latest_active_vote: the id of the last open vote, 0 when none is open.
get_latest_active_vote(vs) ==
    IF ActiveVotes(vs) = <<>> THEN 0 ELSE ActiveVotes(vs)[Len(ActiveVotes(vs))].id

\* Due only after the closing time has passed.
ExpiredStrictly(v, t) == v.status = "open" /\ t > v.closes_at

Expired(v, t) == v.status = "open" /\ t >= v.closes_at

\* auto_close_expired: every open vote that is due is closed; the closed
\* records are returned in list order.
auto_close_expired(vs, t) ==
    [i \in 1..Len(vs) |-> IF Expired(vs[i], t) THEN Closed(vs[i]) ELSE vs[i]]

\* The list auto_close_expired returns, were it always empty.
ExpiredUnreported(vs, t) == <<>>

ExpiredClosed(vs, t) ==
    LET Due(v) == Expired(v, t)
        due == SelectSeq(vs, Due)
    IN  [i \in 1..Len(due) |-> Closed(due[i])]

\* apply_vote_result for each vote of a list, in order.
RECURSIVE ApplyAll(_, _)
ApplyAll(is, closed) ==
    IF closed = <<>> THEN is
    ELSE ApplyAll(apply_vote_result(is, Head(closed)), Tail(closed))

\* ---------------------------------------------------------- ChatNovelEngine
\* _DEFAULT_CHAT_NOVEL, with the fields the handlers below read or write.
\* The global summary is known by its length class: "short" is a text of at
\* most SummaryCap characters (the empty text and the placeholder start()
\* writes among them), "long" a longer one.
DefaultChatNovel ==
    [status |-> "stopped", chapters |-> <<>>, characters |-> <<>>,
     contributors |-> <<>>, force_ending |-> FALSE, global_summary |-> "short"]

is_collecting(nv) == nv.status = "collecting"

get_force_ending(nv) == nv.force_ending

Message(sender, n) == [sender_name |-> sender, sender_id |-> sender, id |-> n]

\* add_message: the buffer with the message appended, and the novel with the
\* sender among the contributors.
add_message_buffer(ms, sender, n) == Append(ms, Message(sender, n))

add_message_novel(nv, sender) ==
    IF sender # "" /\ \A i \in 1..Len(nv.contributors) : nv.contributors[i] # sender
    THEN [nv EXCEPT !.contributors = Append(@, sender)]
    ELSE nv

\* The merge of one candidate, were the locks not looked at.
MergeCharacterUnlocked(existing, ch) ==
    LET bySid == FirstIndex({i \in 1..Len(existing) : existing[i].sender_id = ch.sender_id})
        byName == FirstIndex({i \in 1..Len(existing) : existing[i].real_name = ch.real_name})
    IN  IF ch.sender_id # "" /\ bySid # 0
        THEN [existing EXCEPT
                ![bySid].description = IF ch.description # "" THEN ch.description ELSE @,
                ![bySid].novel_name = IF ch.novel_name # "" THEN ch.novel_name ELSE @]
        ELSE IF ch.real_name # "" /\ byName # 0
        THEN [existing EXCEPT
                ![byName].description = IF ch.description # "" THEN ch.description ELSE @]
        ELSE Append(existing, [real_name |-> ch.real_name, novel_name |-> ch.novel_name,
                               description |-> ch.description, sender_id |-> ch.sender_id,
                               locked |-> FALSE])

\* The merge of one candidate, were it resolved by its sender id alone.
MergeCharacterBySenderId(existing, ch) ==
    LET bySid == FirstIndex({i \in 1..Len(existing) : existing[i].sender_id = ch.sender_id})
    IN  IF ch.sender_id # "" /\ bySid # 0
        THEN IF existing[bySid].locked THEN existing
             ELSE [existing EXCEPT
                     ![bySid].description = IF ch.description # "" THEN ch.description ELSE @,
                     ![bySid].novel_name = IF ch.novel_name # "" THEN ch.novel_name ELSE @]
        ELSE Append(existing, [real_name |-> ch.real_name, novel_name |-> ch.novel_name,
                               description |-> ch.description, sender_id |-> ch.sender_id,
                               locked |-> FALSE])

\* One candidate of _update_characters, merged into the list.
MergeCharacter(existing, ch) ==
    LET bySid == FirstIndex({i \in 1..Len(existing) : existing[i].sender_id = ch.sender_id})
        byName == FirstIndex({i \in 1..Len(existing) : existing[i].real_name = ch.real_name})
    IN  IF ch.sender_id # "" /\ bySid # 0
        THEN IF existing[bySid].locked THEN existing
             ELSE [existing EXCEPT
                     ![bySid].description = IF ch.description # "" THEN ch.description ELSE @,
                     ![bySid].novel_name = IF ch.novel_name # "" THEN ch.novel_name ELSE @]
        ELSE IF ch.real_name # "" /\ byName # 0
        THEN IF existing[byName].locked THEN existing
             ELSE [existing EXCEPT
                     ![byName].description = IF ch.description # "" THEN ch.description ELSE @]
        ELSE Append(existing, [real_name |-> ch.real_name, novel_name |-> ch.novel_name,
                               description |-> ch.description, sender_id |-> ch.sender_id,
                               locked |-> FALSE])

RECURSIVE update_characters(_, _)
update_characters(existing, new_chars) ==
    IF new_chars = <<>> THEN existing
    ELSE update_characters(MergeCharacter(existing, Head(new_chars)), Tail(new_chars))

\* _map_new_characters: of the characters the backend answered with, those
\* whose real name is a new participant are merged, with no sender id.
Mapped(answer, new_names) ==
    LET Kept(ch) == ch.real_name # "" /\ ch.real_name \in new_names
        kept == SelectSeq(answer, Kept)
    IN  [i \in 1..Len(kept) |-> [kept[i] EXCEPT !.sender_id = ""]]

map_new_characters(nv, new_names, mapOut) ==
    IF mapOut.kind # "ok" \/ Mapped(mapOut.characters, new_names) = <<>> THEN nv
    ELSE [nv EXCEPT !.characters = update_characters(@, Mapped(mapOut.characters, new_names))]

\* generate_chapter, the character_updates of the answer: the first character
\* with the real name or the novel name of the update takes its description,
\* unless it is locked.
UpdateCharacter(chars, cu) ==
    LET k == FirstIndex({i \in 1..Len(chars) :
                 chars[i].real_name = cu.real_name \/ chars[i].novel_name = cu.novel_name})
    IN  IF k = 0 \/ chars[k].locked \/ cu.description = "" THEN chars
        ELSE [chars EXCEPT ![k].description = cu.description]

RECURSIVE character_updates(_, _)
character_updates(chars, cus) ==
    IF cus = <<>> THEN chars
    ELSE character_updates(UpdateCharacter(chars, Head(cus)), Tail(cus))

Participants(ms) == {ms[i].sender_name : i \in 1..Len(ms)}

NewParticipants(nv, ms) ==
    {p \in Participants(ms) :
        \A i \in 1..Len(nv.characters) : nv.characters[i].real_name # p}

\* A chapter numbered by the length of the list.
ChapterNumberedFromZero(nv, ms, force_ending) ==
    [number |-> Len(nv.chapters), src |-> ms, ending |-> force_ending]

\* The chapter generate_chapter builds; src (the buffered messages it was
\* written from) and ending (whether the request carried the ending
\* directive) are kept with it.
Chapter(nv, ms, force_ending) ==
    [number |-> Len(nv.chapters) + 1, src |-> ms, ending |-> force_ending]

\* generate_chapter, lines 489-492: a forced ending stops the session and
\* consumes the flag.
EndingFlagKept(nv) == [nv EXCEPT !.status = "stopped"]

Ended(nv) == [nv EXCEPT !.force_ending = FALSE, !.status = "stopped"]

\* generate_chapter, lines 445-457: the length of the summary of the new
\* chapter: the first 200 characters of an answer that is not JSON, the
\* "summary" of one that is.
ChapterSummaryLen(genOut) ==
    IF genOut.kind = "text" THEN Min(genOut.len, SummaryHead) ELSE genOut.summary

\* generate_chapter, lines 463-469: the "updated_summary" of the answer as it
\* is, else the last 500 characters of the old summary and the summary of
\* the chapter, else the old summary.
global_summary_after(old, genOut) ==
    IF genOut.kind = "json" /\ genOut.updated_summary > 0
    THEN IF genOut.updated_summary > SummaryCap THEN "long" ELSE "short"
    ELSE IF ChapterSummaryLen(genOut) > 0 THEN "short"
    ELSE old

\* generate_chapter, were a failed save of the emptied buffer not to stop it.
generate_chapter_ignoring_save(nv, ms, force_ending, mapOut, genOut, fault) ==
    LET mapped == IF NewParticipants(nv, ms) = {} THEN nv
                  ELSE map_new_characters(nv, NewParticipants(nv, ms), mapOut)
        written == [mapped EXCEPT
                      !.chapters = Append(@, Chapter(nv, ms, force_ending)),
                      !.global_summary = global_summary_after(@, genOut),
                      !.characters = IF genOut.kind = "json"
                                     THEN character_updates(@, genOut.character_updates)
                                     ELSE @]
        kept == IF fault = "save_messages" THEN ms ELSE <<>>
        Out(n, m, r, i) == [novel |-> n, messages |-> m, ret |-> r, issued |-> i,
                            directive |-> i /\ force_ending]
    IN  IF ms = <<>> THEN Out(nv, ms, "none", FALSE)
        ELSE IF genOut.kind = "fail" \/ fault = "save_novel" THEN Out(mapped, ms, "none", TRUE)
        ELSE IF ~force_ending THEN Out(written, kept, "chapter", TRUE)
        ELSE IF fault = "save_final" THEN Out(written, kept, "none", TRUE)
        ELSE Out(Ended(written), kept, "chapter", TRUE)

\* generate_chapter. mapOut and genOut are the answers of the two backend
\* calls; fault names the save that raises OSError, if one does. The result
\* holds what is on disk afterwards, what the method returns, and whether the
\* chapter request was sent, and with the ending directive.
generate_chapter(nv, ms, force_ending, mapOut, genOut, fault) ==
    LET mapped == IF NewParticipants(nv, ms) = {} THEN nv
                  ELSE map_new_characters(nv, NewParticipants(nv, ms), mapOut)
        written == [mapped EXCEPT
                      !.chapters = Append(@, Chapter(nv, ms, force_ending)),
                      !.global_summary = global_summary_after(@, genOut),
                      !.characters = IF genOut.kind = "json"
                                     THEN character_updates(@, genOut.character_updates)
                                     ELSE @]
        Out(n, m, r, i) == [novel |-> n, messages |-> m, ret |-> r, issued |-> i,
                            directive |-> i /\ force_ending]
    IN  IF ms = <<>> THEN Out(nv, ms, "none", FALSE)
        ELSE IF genOut.kind = "fail" \/ fault = "save_novel" THEN Out(mapped, ms, "none", TRUE)
        ELSE IF fault = "save_messages" THEN Out(written, ms, "none", TRUE)
        ELSE IF ~force_ending THEN Out(written, <<>>, "chapter", TRUE)
        ELSE IF fault = "save_final" THEN Out(written, <<>>, "none", TRUE)
        ELSE Out(Ended(written), <<>>, "chapter", TRUE)

\* evaluate_quality, were a failed call and an answer that does not parse to
\* count as insufficient.
evaluate_quality_closed(ms, gate) == ms # <<>> /\ gate = "sufficient"

\* evaluate_quality: a failed call and an answer that does not parse count as
\* sufficient.
evaluate_quality(ms, gate) ==
    IF ms = <<>> THEN FALSE ELSE gate # "insufficient"

\* filter_messages: the messages whose (0-based) index the answer keeps, when
\* there is one; the buffer as it was otherwise.
Filtered(ms, keep) ==
    LET Pos == {i \in 1..Len(ms) : (i - 1) \in keep}
        Rank(i) == Cardinality({j \in Pos : j <= i})
    IN  [r \in 1..Cardinality(Pos) |-> ms[CHOOSE i \in Pos : Rank(i) = r]]

\* filter_messages, were it to save an empty selection too.
filter_messages_emptying(ms, filterOut) ==
    IF ms = <<>> \/ filterOut.kind # "ok" THEN ms
    ELSE Filtered(ms, filterOut.keep_indices)

filter_messages(ms, filterOut) ==
    IF ms = <<>> \/ filterOut.kind # "ok" \/ Filtered(ms, filterOut.keep_indices) = <<>>
    THEN ms
    ELSE Filtered(ms, filterOut.keep_indices)

\* rewrite_chapter: the chapter with the number is replaced, in its place and
\* under its number, by the rewritten one; a failed call or save stores
\* nothing.
rewrite_chapter(nv, chapter_number, out, fault) ==
    LET k == FirstIndex({i \in 1..Len(nv.chapters) : nv.chapters[i].number = chapter_number}) IN
    IF k = 0 \/ out.kind = "fail" \/ fault = "save_novel" THEN nv
    ELSE [nv EXCEPT !.chapters[k] = [number |-> chapter_number, src |-> @.src,
                                     ending |-> @.ending, rewritten |-> TRUE]]

\* update_character_desc, were it to leave a locked character alone.
update_character_desc_locked(nv, name, new_desc) ==
    LET k == FirstIndex({i \in 1..Len(nv.characters) :
                 nv.characters[i].real_name = name \/ nv.characters[i].novel_name = name})
    IN  IF k = 0 \/ nv.characters[k].locked THEN nv
        ELSE [nv EXCEPT !.characters[k].description = new_desc]

update_character_desc(nv, name, new_desc) ==
    LET k == FirstIndex({i \in 1..Len(nv.characters) :
                 nv.characters[i].real_name = name \/ nv.characters[i].novel_name = name})
    IN  IF k = 0 THEN nv ELSE [nv EXCEPT !.characters[k].description = new_desc]

toggle_character_lock(nv, name) ==
    LET k == FirstIndex({i \in 1..Len(nv.characters) :
                 nv.characters[i].real_name = name \/ nv.characters[i].novel_name = name})
    IN  IF k = 0 THEN nv ELSE [nv EXCEPT !.characters[k].locked = ~@]

\* -------------------------------------------------------------- NovelEngine
\* novel.json of the scene pipeline: _DEFAULT_NOVEL, with the fields the
\* methods below read or write (titles, styles and the summary of a chapter
\* are left out). A text is a token; a scene is known by its place (chapter,
\* scene) in place of its generated id; the global summary is known by its
\* length.
DefaultNovel == [title |-> "", chapters |-> <<>>, global_summary |-> DefaultSummaryLen]

is_initialized(b) == b.title # ""

initialize(title) == [DefaultNovel EXCEPT !.title = title]

add_chapter(b) ==
    [b EXCEPT !.chapters = Append(@, [number |-> Len(@) + 1, scenes |-> <<>>])]

\* A summary that is nothing.
NoSummary(content, sumOut) == [kind |-> "none", of |-> ""]

\* _summarize_scene: the answer of the backend, or the head of the text when
\* the call fails.
summarize_scene(content, sumOut) ==
    IF sumOut = "ok" THEN [kind |-> "llm", of |-> content]
    ELSE [kind |-> "truncated", of |-> content]

\* _update_global_summary: the first 500 characters of the answer; a failed
\* call keeps the summary.
update_global_summary(old, globOut) ==
    IF globOut.kind = "ok" THEN Min(globOut.len, SummaryCap) ELSE old

Scene(content, summary) ==
    [content |-> content, version |-> 1, revisions |-> <<>>, status |-> "draft",
     summary |-> summary]

\* The backend calls generate_scene makes.
generate_scene_calls(b, out) ==
    IF b.chapters = <<>> THEN {}
    ELSE IF out.kind # "ok" \/ out.text = "" THEN {"generate"}
    ELSE {"generate", "summarize", "global"}

\* A generate_scene that stores whatever came back.
generate_scene_storing_blank(b, out, sumOut, globOut, fault) ==
    IF b.chapters = <<>> \/ fault = "save" THEN b
    ELSE [b EXCEPT !.chapters[Len(b.chapters)].scenes =
                       Append(@, Scene(out.text, summarize_scene(out.text, sumOut))),
                   !.global_summary = update_global_summary(@, globOut)]

\* generate_scene with no chapter_id: the scene goes to the last chapter; an
\* answer that fails or is blank, and a save that fails, store nothing.
generate_scene(b, out, sumOut, globOut, fault) ==
    IF b.chapters = <<>> \/ out.kind # "ok" \/ out.text = "" \/ fault = "save" THEN b
    ELSE [b EXCEPT !.chapters[Len(b.chapters)].scenes =
                       Append(@, Scene(out.text, summarize_scene(out.text, sumOut))),
                   !.global_summary = update_global_summary(@, globOut)]

\* get_latest_scene: the last scene of the last chapter that has one.
get_latest_scene(b) ==
    LET with == {c \in 1..Len(b.chapters) : b.chapters[c].scenes # <<>>} IN
    IF with = {} THEN <<0, 0>>
    ELSE LET c == CHOOSE x \in with : \A y \in with : y <= x
         IN  <<c, Len(b.chapters[c].scenes)>>

\* A revision that files the old content and keeps the version.
RevisedKeepingVersion(sc, content) ==
    [sc EXCEPT !.revisions = Append(@, [version |-> sc.version, content |-> sc.content]),
               !.content = content,
               !.status = "revised"]

\* revise_scene, lines 380-386: the content being replaced is filed under
\* the version it had, then the version goes up and the content is replaced.
Revised(sc, content) ==
    [sc EXCEPT !.revisions = Append(@, [version |-> sc.version, content |-> sc.content]),
               !.version = @ + 1,
               !.content = content,
               !.status = "revised"]

\* The backend calls revise_scene makes.
revise_scene_calls(b, c, s, out) ==
    IF c \notin 1..Len(b.chapters) THEN {}
    ELSE IF s \notin 1..Len(b.chapters[c].scenes) THEN {}
    ELSE IF out.kind = "pass1_failed" THEN {"pass1"}
    ELSE IF out.kind = "pass2_failed" THEN {"pass1", "pass2"}
    ELSE {"pass1", "pass2", "pass3", "summarize", "global"}

FinalContent(out) == IF out.final = "failed" THEN out.revised ELSE out.final

\* A revise_scene that goes on with the old content when pass 2 fails.
revise_scene_soft_rewrite(b, c, s, out, sumOut, globOut, fault) ==
    IF c \notin 1..Len(b.chapters) THEN b
    ELSE IF s \notin 1..Len(b.chapters[c].scenes) THEN b
    ELSE IF out.kind = "pass1_failed" \/ fault = "save" THEN b
    ELSE LET final == IF out.kind = "ok" THEN FinalContent(out)
                      ELSE b.chapters[c].scenes[s].content
         IN  [b EXCEPT !.chapters[c].scenes[s] =
                           [Revised(@, final) EXCEPT !.summary = summarize_scene(final, sumOut)],
                       !.global_summary = update_global_summary(@, globOut)]

\* A revise_scene that gives up when pass 3 fails.
revise_scene_strict_proofread(b, c, s, out, sumOut, globOut, fault) ==
    IF c \notin 1..Len(b.chapters) THEN b
    ELSE IF s \notin 1..Len(b.chapters[c].scenes) THEN b
    ELSE IF out.kind # "ok" \/ out.final = "failed" \/ fault = "save" THEN b
    ELSE [b EXCEPT !.chapters[c].scenes[s] =
                       [Revised(@, out.final) EXCEPT
                            !.summary = summarize_scene(out.final, sumOut)],
                   !.global_summary = update_global_summary(@, globOut)]

\* revise_scene: nothing is stored when the scene is missing, when pass 1 or
\* pass 2 fails or when the save fails; a failed pass 3 keeps the text of
\* pass 2.
revise_scene(b, c, s, out, sumOut, globOut, fault) ==
    IF c \notin 1..Len(b.chapters) THEN b
    ELSE IF s \notin 1..Len(b.chapters[c].scenes) THEN b
    ELSE IF out.kind # "ok" \/ fault = "save" THEN b
    ELSE [b EXCEPT !.chapters[c].scenes[s] =
                       [Revised(@, FinalContent(out)) EXCEPT
                            !.summary = summarize_scene(FinalContent(out), sumOut)],
                   !.global_summary = update_global_summary(@, globOut)]

\* revise_chapter_with_user_input, lines 455-461: every scene of the chapter
\* files its content under its version and moves to the next version.
Archived(sc) ==
    [sc EXCEPT !.revisions = Append(@, [version |-> sc.version, content |-> sc.content,
                                        revision_type |-> "user_guided"]),
               !.version = @ + 1]

\* Lines 463-484: one scene takes the whole answer. For several scenes the
\* answer is split at its labels; segs are the texts before the first label
\* and after each label. When there are at least as many of them as scenes,
\* scene i takes the i-th (a blank one leaves its scene as it is), else the
\* first scene takes the whole answer.
Replaced(scenes, out) ==
    IF Len(scenes) = 1 \/ Len(out.segs) < Len(scenes)
    THEN [scenes EXCEPT ![1].content = out.whole, ![1].status = "revised"]
    ELSE [i \in 1..Len(scenes) |->
             IF out.segs[i] = "" THEN scenes[i]
             ELSE [scenes[i] EXCEPT !.content = out.segs[i], !.status = "revised"]]

revise_chapter_with_user_input(b, chapter_number, out, globOut, fault) ==
    LET k == FirstIndex({i \in 1..Len(b.chapters) : b.chapters[i].number = chapter_number}) IN
    IF k = 0 THEN b
    ELSE IF b.chapters[k].scenes = <<>> THEN b
    ELSE IF out.kind # "ok" \/ out.whole = "" \/ fault = "save" THEN b
    ELSE LET scenes == b.chapters[k].scenes
             archived == [i \in 1..Len(scenes) |-> Archived(scenes[i])]
         IN  [b EXCEPT !.chapters[k].scenes = Replaced(archived, out),
                       !.global_summary = update_global_summary(@, globOut)]

\* The record of the last apply_vote_result call of a handler: its argument,
\* the ideas before and after it, what it returned, and whether the vote had
\* been closed, and its result applied, by an earlier handler (a retry).
ApplyLog(op, before, vote, retry) ==
    [op |-> op, applied |-> TRUE, retry |-> retry, vote |-> vote, before |-> before,
     after |-> apply_vote_result(before, vote),
     ret |-> apply_vote_ret(before, vote)]

Did(op) == [op |-> op, applied |-> FALSE]

\* ------------------------------------------------------------ commands
\* pc is the place of the one idea command in progress: a command that
\* saves more than once takes one step per save, and no other handler runs
\* until it is done.
InitIdeas ==
    /\ ideas = <<>>
    /\ votes = <<>>
    /\ now = 0
    /\ pc = AtRest

InitChatIdle ==
    /\ novel = DefaultChatNovel
    /\ messages = <<>>
    /\ sent = 0
    /\ cfg = [threshold |-> 1, filter_enabled |-> FALSE]
    /\ book = DefaultNovel
    /\ groups = NoGroups
    /\ inflight = NoFlight
    /\ disk = NoDisk

Init ==
    /\ InitIdeas
    /\ InitChatIdle
    /\ last = Idle

At(place, id, report) == [at |-> place, id |-> id, report |-> report]

\* cmd_idea, first save: submit_idea stores the new idea.
IdeaSubmit ==
    \E content \in Contents :
        /\ pc.at = "idle"
        /\ Len(ideas) < MaxIdeas
        /\ ideas' = submit_idea(ideas, content)
        /\ pc' = At("score", Len(ideas) + 1, NoInfo)
        /\ last' = Did("submit_idea")
        /\ UNCHANGED <<otherVars, votes, now, chatVars, book>>

\* cmd_idea, second save: score_idea asks the three judges and stores the
\* scores and their mean. A score that is not a number makes sum() raise:
\* nothing is saved and the command ends with an error message.
IdeaScore(outsSet) ==
    \E outs \in outsSet :
        /\ pc.at = "score"
        /\ IF ScoreRaises(outs)
           THEN /\ ideas' = ideas
                /\ pc' = AtRest
                /\ last' = [op |-> "score_idea", applied |-> FALSE, id |-> pc.id,
                            outs |-> outs, raised |-> TRUE]
           ELSE /\ ideas' = score_idea(ideas, pc.id, outs)
                /\ pc' = At(IF score_idea(ideas, pc.id, outs)[pc.id].weighted_avg
                                   < 10 * ScoreThreshold
                            THEN "reject" ELSE "check", pc.id, NoInfo)
                /\ last' = [op |-> "score_idea", applied |-> FALSE, id |-> pc.id,
                            outs |-> outs, raised |-> FALSE]
        /\ UNCHANGED <<otherVars, votes, now, chatVars, book>>

\* The judges' answers the governance specification draws from: all three
\* score high, two score low and one fails, all fail, one answers with
\* something that is not a number.
Ok(s) == [kind |-> "ok", overall |-> s]
Failed == [kind |-> "fail", overall |-> 0]
GovOuts ==
    {<<Ok(80), Ok(80), Ok(80)>>, <<Ok(60), Failed, Ok(60)>>, <<Failed, Failed, Failed>>,
     <<Ok(80), [kind |-> "nan", overall |-> 0], Ok(80)>>}

GovIdeaScore == IdeaScore(GovOuts)

\* cmd_idea below the threshold: reject_idea, and the reply that the score
\* did not pass.
IdeaReject ==
    /\ pc.at = "reject"
    /\ ideas' = reject_idea(ideas, pc.id)
    /\ pc' = AtRest
    /\ last' = [op |-> "reject_idea", applied |-> FALSE, reply |-> "score_not_passed"]
    /\ UNCHANGED <<otherVars, votes, now, chatVars, book>>

\* cmd_idea at or above the threshold: check_conflict, which saves the report
\* and the conflict status when the answer parsed.
IdeaCheck ==
    \E conflict \in ConflictOutcomes :
        /\ pc.at = "check"
        /\ ideas' = check_conflict(ideas, pc.id, conflict)
        /\ pc' = At(IF ConflictReport(conflict).has_conflict THEN "vote" ELSE "approve",
                    pc.id, ConflictReport(conflict))
        /\ last' = Did("check_conflict")
        /\ UNCHANGED <<otherVars, votes, now, chatVars, book>>

\* cmd_idea with a conflict: create_conflict_vote.
IdeaVote ==
    /\ pc.at = "vote"
    /\ votes' = IF FindById(ideas, pc.id) = 0 THEN votes
                ELSE create_vote(votes, ConflictOptions(pc.report), pc.id, now)
    /\ pc' = AtRest
    /\ last' = Did("create_conflict_vote")
    /\ UNCHANGED <<otherVars, ideas, now, chatVars, book>>

\* cmd_idea with no conflict, and the second save of cmd_force_idea:
\* approve_idea.
IdeaApprove ==
    /\ pc.at = "approve"
    /\ ideas' = approve_idea(ideas, pc.id)
    /\ pc' = AtRest
    /\ last' = Did("approve_idea")
    /\ UNCHANGED <<otherVars, votes, now, chatVars, book>>

\* cmd_force_idea, first save: submit_idea; approve_idea follows, with no
\* scoring.
ForceIdeaSubmit ==
    \E content \in Contents :
        /\ pc.at = "idle"
        /\ Len(ideas) < MaxIdeas
        /\ ideas' = submit_idea(ideas, content)
        /\ pc' = At("approve", Len(ideas) + 1, NoInfo)
        /\ last' = Did("submit_idea")
        /\ UNCHANGED <<otherVars, votes, now, chatVars, book>>

\* cmd_force_approve: approve the last rejected idea.
cmd_force_approve ==
    LET Rejected(i) == i.status = "rejected"
        rejected == SelectSeq(ideas, Rejected)
    IN  /\ pc.at = "idle"
        /\ rejected # <<>>
        /\ ideas' = approve_idea(ideas, rejected[Len(rejected)].id)
        /\ last' = Did("cmd_force_approve")
        /\ UNCHANGED <<otherVars, votes, now, pc, chatVars, book>>

\* cmd_vote: close the votes that are due and apply their results, then cast
\* the sender's ballot on the latest open vote.
cmd_vote(user, option) ==
    LET expired == ExpiredClosed(votes, now)
        vs1 == auto_close_expired(votes, now)
        before == ApplyAll(ideas, SubSeq(expired, 1, Len(expired) - 1))
        latest == get_latest_active_vote(vs1)
    IN  /\ pc.at = "idle"
        /\ ideas' = ApplyAll(ideas, expired)
        /\ votes' = IF option = "" \/ latest = 0 THEN vs1
                    ELSE cast_vote(vs1, latest, user, option)
        /\ last' = IF expired = <<>> THEN Did("cmd_vote")
                   ELSE ApplyLog("cmd_vote", before, expired[Len(expired)], FALSE)
        /\ UNCHANGED <<otherVars, now, pc, chatVars, book>>

CmdVote == \E user \in GovUsers, option \in OptionInputs : cmd_vote(user, option)

\* cmd_close_vote: close the latest open vote and apply its result.
cmd_close_vote ==
    LET latest == get_latest_active_vote(votes)
        vs1 == close_vote(votes, latest)
    IN  /\ pc.at = "idle"
        /\ latest # 0
        /\ votes' = vs1
        /\ ideas' = apply_vote_result(ideas, vs1[FindById(vs1, latest)])
        /\ last' = ApplyLog("cmd_close_vote", ideas, vs1[FindById(vs1, latest)], FALSE)
        /\ UNCHANGED <<otherVars, now, pc, chatVars, book>>

\* The clock: datetime.now() moves on between handlers.
Tick ==
    /\ now < MaxTime
    /\ now' = now + 1
    /\ last' = Did("tick")
    /\ UNCHANGED <<otherVars, ideas, votes, pc, chatVars, book>>

Next ==
    \/ IdeaSubmit
    \/ GovIdeaScore
    \/ IdeaReject
    \/ IdeaCheck
    \/ IdeaVote
    \/ IdeaApprove
    \/ ForceIdeaSubmit
    \/ cmd_force_approve
    \/ CmdVote
    \/ cmd_close_vote
    \/ Tick

Spec == Init /\ [][Next]_vars

\* ------------------------------------------------- direct calls and retries
\* apply_vote_result is a public method: besides the two commands, a caller
\* can hand it any vote record, and can hand it again a vote that is closed
\* and whose result was applied (every closed vote of the store is one).
MissingId == MaxIdeas + 1

StrayVotes ==
    {[id |-> 0, options |-> ConflictOptions([suggestion |-> s]), ballots |-> NoBallots,
      status |-> "closed",
      result |-> [winner |-> w, tally |-> <<>>, total_votes |-> 0],
      related_idea_id |-> r, closes_at |-> 0] :
        s \in Suggestions, w \in {"C"}, r \in {0, MissingId}}

ContentFits(is, vote) ==
    \A i \in 1..Len(apply_vote_result(is, vote)) :
        Len(apply_vote_result(is, vote)[i].content) <= MaxContent

RetryApply ==
    \E i \in 1..Len(votes) :
        /\ pc.at = "idle"
        /\ votes[i].status = "closed"
        /\ ContentFits(ideas, votes[i])
        /\ ideas' = apply_vote_result(ideas, votes[i])
        /\ last' = ApplyLog("apply_vote_result", ideas, votes[i], TRUE)
        /\ UNCHANGED <<otherVars, votes, now, pc, chatVars, book>>

StrayApply ==
    \E vote \in StrayVotes :
        /\ pc.at = "idle"
        /\ ideas' = apply_vote_result(ideas, vote)
        /\ last' = ApplyLog("apply_vote_result", ideas, vote, FALSE)
        /\ UNCHANGED <<otherVars, votes, now, pc, chatVars, book>>

NextDirect == Next \/ RetryApply \/ StrayApply

SpecDirect == Init /\ [][NextDirect]_vars

\* ------------------------------------------------------- scoring, in depth
\* One idea, just submitted, and every combination of answers of the three
\* judges over a wider range of scores.
ScoreRange == {0, 58, 60, 70, 75, 80, 100}
ScoreOutcomes ==
    {[kind |-> "fail", overall |-> 0], [kind |-> "unparsable", overall |-> 0],
     [kind |-> "nan", overall |-> 0]}
    \cup {[kind |-> "ok", overall |-> x] : x \in ScoreRange}

InitScore ==
    /\ ideas = submit_idea(<<>>, "x")
    /\ votes = <<>>
    /\ now = 0
    /\ pc = At("score", 1, NoInfo)
    /\ InitChatIdle
    /\ last = Did("submit_idea")

AnyIdeaScore == IdeaScore([1..3 -> ScoreOutcomes])

NextScore ==
    \/ AnyIdeaScore
    \/ IdeaReject
    \/ IdeaCheck
    \/ IdeaVote
    \/ IdeaApprove

SpecScore == InitScore /\ [][NextScore]_vars

\* ------------------------------------------------------- the chat novel
\* What the last chat-novel handler did: the size of the buffer after the
\* append, the verdict of the quality gate and the answer of the filter when
\* they were asked (and whether the filter kept a message), what generate_chapter
\* returned, whether the chapter request was sent, and with the ending
\* directive, and whether a direct merge named a locked character.
ChatDid(op) ==
    [op |-> op, applied |-> FALSE, n |-> 0, gate |-> "none", filter |-> "none",
     selected |-> FALSE, ret |-> "none", issued |-> FALSE, directive |-> FALSE,
     aimed |-> FALSE]

Generated(op, n, gate, g) ==
    [ChatDid(op) EXCEPT !.n = n, !.gate = gate, !.ret = g.ret,
                        !.issued = g.issued, !.directive = g.directive]

GateOutcomes == {"sufficient", "insufficient", "fail", "unparsable"}
Faults == {"none", "save_novel", "save_messages", "save_final"}
NoFilter == [kind |-> "fail", keep_indices |-> {}]
NoMap == [kind |-> "fail", characters |-> <<>>]
\* An answer of the generation call: its kind (the call failed, the answer
\* is JSON, or it is not), the length of its text, and for a JSON answer the
\* lengths of its "summary" and "updated_summary" (0: absent) and its
\* "character_updates".
GenOut(kind, len, summary, updated_summary, updates) ==
    [kind |-> kind, len |-> len, summary |-> summary,
     updated_summary |-> updated_summary, character_updates |-> updates]

NoGen == GenOut("fail", 0, 0, 0, <<>>)

\* The answers of the filter for a buffer of n messages: index n is out of
\* range.
FilterOuts(n) ==
    {NoFilter, [kind |-> "unparsable", keep_indices |-> {}]}
        \cup {[kind |-> "ok", keep_indices |-> K] : K \in SUBSET (0..n)}

Draft(real, name, desc, sid) ==
    [real_name |-> real, novel_name |-> name, description |-> desc, sender_id |-> sid]

Update(real, name, desc) ==
    [real_name |-> real, novel_name |-> name, description |-> desc]

Configs == [threshold : 1..MaxThreshold, filter_enabled : BOOLEAN]

InitChat ==
    /\ InitIdeas
    /\ pc = AtRest
    /\ last = ChatDid("idle")
    /\ novel = DefaultChatNovel
    /\ messages = <<>>
    /\ sent = 0
    /\ cfg \in Configs
    /\ book = DefaultNovel
    /\ groups = NoGroups
    /\ inflight = NoFlight
    /\ disk = NoDisk

\* Whether the answer of the filter keeps the index of a buffered message.
Selects(ms, filterOut) ==
    filterOut.kind = "ok" /\ \E i \in 0..(Len(ms) - 1) : i \in filterOut.keep_indices

\* The trigger, were it "count >= threshold" alone.
TriggeredAtLeast(count, threshold) == count >= threshold

\* on_group_message, line 1501.
Triggered(count, threshold) == count >= threshold /\ count % threshold = 0

on_group_message(sender, gate, filterOut, mapOut, genOut, fault) ==
    /\ pc.at = "idle"
    /\ is_collecting(novel)
    /\ sent < MaxMsgs
    /\ LET ms == add_message_buffer(messages, sender, sent + 1)
           nv == add_message_novel(novel, sender)
           count == Len(ms)
           g == generate_chapter(nv, ms, get_force_ending(nv), mapOut, genOut, fault)
           log == [ChatDid("on_group_message") EXCEPT !.n = count]
       IN  IF ~Triggered(count, cfg.threshold)
           THEN /\ messages' = ms
                /\ novel' = nv
                /\ last' = log
           ELSE IF ~evaluate_quality(ms, gate)
           THEN /\ novel' = nv
                /\ IF cfg.filter_enabled
                   THEN /\ messages' = filter_messages(ms, filterOut)
                        /\ last' = [log EXCEPT !.gate = "insufficient",
                                               !.filter = filterOut.kind,
                                               !.selected = Selects(ms, filterOut)]
                   ELSE /\ messages' = ms
                        /\ last' = [log EXCEPT !.gate = "insufficient"]
           ELSE /\ novel' = g.novel
                /\ messages' = g.messages
                /\ last' = Generated("on_group_message", count, "sufficient", g)
    /\ sent' = sent + 1
    /\ UNCHANGED <<otherVars, ideaVars, pc, cfg, book>>

\* The three ways through the handler, each with the inputs it reads.
MsgCollect(senders) ==
    \E sender \in senders :
        /\ ~Triggered(Len(messages) + 1, cfg.threshold)
        /\ on_group_message(sender, "sufficient", NoFilter, NoMap, NoGen, "none")

MsgInsufficient(senders) ==
    \E sender \in senders, filterOut \in FilterOuts(Len(messages) + 1) :
        /\ Triggered(Len(messages) + 1, cfg.threshold)
        /\ cfg.filter_enabled \/ filterOut = NoFilter
        /\ on_group_message(sender, "insufficient", filterOut, NoMap, NoGen, "none")

MsgGenerate(senders, gates, mapOuts, genOuts, faults) ==
    \E sender \in senders, gate \in gates \ {"insufficient"},
       mapOut \in mapOuts, genOut \in genOuts, fault \in faults :
        /\ Triggered(Len(messages) + 1, cfg.threshold)
        /\ Len(novel.chapters) < MaxChapters
        /\ on_group_message(sender, gate, NoFilter, mapOut, genOut, fault)

cn_generate_now(mapOut, genOut, fault) ==
    /\ pc.at = "idle"
    /\ Len(messages) > 0
    /\ Len(novel.chapters) < MaxChapters
    /\ LET g == generate_chapter(novel, messages, get_force_ending(novel),
                                 mapOut, genOut, fault)
       IN  /\ novel' = g.novel
           /\ messages' = g.messages
           /\ last' = Generated("cn_generate_now", Len(messages), "none", g)
    /\ UNCHANGED <<otherVars, ideaVars, pc, sent, cfg, book>>

CnGenerateNow(mapOuts, genOuts, faults) ==
    \E mapOut \in mapOuts, genOut \in genOuts, fault \in faults :
        cn_generate_now(mapOut, genOut, fault)

\* cn_start -> start(): the buffer is cleared, the novel is kept.
cn_start ==
    /\ pc.at = "idle"
    /\ ~is_collecting(novel)
    /\ novel' = [novel EXCEPT !.status = "collecting"]
    /\ messages' = <<>>
    /\ last' = ChatDid("cn_start")
    /\ UNCHANGED <<otherVars, ideaVars, pc, sent, cfg, book>>

cn_stop ==
    /\ pc.at = "idle"
    /\ is_collecting(novel)
    /\ novel' = [novel EXCEPT !.status = "stopped"]
    /\ last' = ChatDid("cn_stop")
    /\ UNCHANGED <<otherVars, ideaVars, pc, messages, sent, cfg, book>>

cn_resume ==
    /\ pc.at = "idle"
    /\ ~is_collecting(novel)
    /\ novel' = [novel EXCEPT !.status = "collecting"]
    /\ last' = ChatDid("cn_resume")
    /\ UNCHANGED <<otherVars, ideaVars, pc, messages, sent, cfg, book>>

\* cn_delete -> reset().
cn_delete ==
    /\ pc.at = "idle"
    /\ novel' = DefaultChatNovel
    /\ messages' = <<>>
    /\ last' = ChatDid("cn_delete")
    /\ UNCHANGED <<otherVars, ideaVars, pc, sent, cfg, book>>

\* cn_ending -> set_force_ending(True).
cn_ending ==
    /\ pc.at = "idle"
    /\ is_collecting(novel)
    /\ novel' = [novel EXCEPT !.force_ending = TRUE]
    /\ last' = ChatDid("cn_ending")
    /\ UNCHANGED <<otherVars, ideaVars, pc, messages, sent, cfg, book>>

cn_lock_char(name) ==
    /\ pc.at = "idle"
    /\ novel' = toggle_character_lock(novel, name)
    /\ last' = ChatDid("cn_lock_char")
    /\ UNCHANGED <<otherVars, ideaVars, pc, messages, sent, cfg, book>>

cn_edit_char(name, new_desc) ==
    /\ pc.at = "idle"
    /\ novel' = update_character_desc(novel, name, new_desc)
    /\ last' = ChatDid("cn_edit_char")
    /\ UNCHANGED <<otherVars, ideaVars, pc, messages, sent, cfg, book>>

ChatSenders == {"a"}
ChatMapOuts == {NoMap, [kind |-> "ok", characters |-> <<Draft("a", "x", "d1", "")>>]}
ChatGenOuts ==
    {NoGen, GenOut("text", 1, 0, 0, <<>>), GenOut("json", 1, 0, 0, <<>>)}

ChatCollect == MsgCollect(ChatSenders)
ChatInsufficient == MsgInsufficient(ChatSenders)
ChatGenerate == MsgGenerate(ChatSenders, GateOutcomes, ChatMapOuts, ChatGenOuts, Faults)
ChatGenerateNow == CnGenerateNow(ChatMapOuts, ChatGenOuts, Faults)

NextChat ==
    \/ ChatCollect
    \/ ChatInsufficient
    \/ ChatGenerate
    \/ ChatGenerateNow
    \/ cn_start
    \/ cn_stop
    \/ cn_resume
    \/ cn_delete
    \/ cn_ending

SpecChat == InitChat /\ [][NextChat]_vars

\* ------------------------------------------------- the characters, in depth
\* The merge is also called directly, with any list of one or two candidates,
\* and the chapter answers carry any one or two character updates. Every
\* message reaches the threshold, the gate lets it pass and no save fails.
CharNames == {"a", "b"}
CharDrafts ==
    {Draft(r, "y", d, sid) : r \in CharNames, d \in {"", "d1"}, sid \in {"", "s1"}}
CharUpdates == {Update(r, n, "d2") : r \in CharNames, n \in {"", "y"}}
MergeInputs ==
    {<<c>> : c \in CharDrafts} \cup {<<c, d>> : c \in CharDrafts, d \in CharDrafts}
CharsGenOuts ==
    {NoGen} \cup {GenOut("json", 1, 0, 0, <<u>>) : u \in CharUpdates}
            \cup {GenOut("json", 1, 0, 0, <<uv[1], uv[2]>>) :
                      uv \in {p \in CharUpdates \X CharUpdates : p[1] # p[2]}}

\* Whether a candidate of the merge names a locked character, by its sender
\* id or by its real name.
MergeAims(chars, new_chars) ==
    \E k \in 1..Len(new_chars), i \in 1..Len(chars) :
        /\ chars[i].locked
        /\ \/ new_chars[k].sender_id # "" /\ chars[i].sender_id = new_chars[k].sender_id
           \/ chars[i].real_name = new_chars[k].real_name

InitChars ==
    /\ InitChat
    /\ cfg = [threshold |-> 1, filter_enabled |-> FALSE]

UpdateCharacters(inputs) ==
    \E new_chars \in inputs :
        /\ pc.at = "idle"
        /\ novel' = [novel EXCEPT !.characters = update_characters(@, new_chars)]
        /\ last' = [ChatDid("_update_characters") EXCEPT
                        !.aimed = MergeAims(novel.characters, new_chars)]
        /\ UNCHANGED <<otherVars, ideaVars, pc, messages, sent, cfg, book>>

CharsMerge == UpdateCharacters(MergeInputs)
CharsGenerate == MsgGenerate(ChatSenders, {"sufficient"}, ChatMapOuts, CharsGenOuts, {"none"})
CharsGenerateNow == CnGenerateNow(ChatMapOuts, CharsGenOuts, {"none"})
CharsLock == \E name \in CharNames \cup {"x", "y"} : cn_lock_char(name)
CharsEdit == \E name \in CharNames \cup {"x", "y"} : cn_edit_char(name, "d2")

NextChars ==
    \/ cn_start
    \/ CharsGenerate
    \/ CharsGenerateNow
    \/ CharsMerge
    \/ CharsLock
    \/ CharsEdit

SpecChars == InitChars /\ [][NextChars]_vars

\* ------------------------------------------------------------------ claims
Amendments(idea) == {j \in 1..Len(idea.content) : idea.content[j].kind = "amend"}

StatusFor(winner) ==
    IF winner = "B" THEN "rejected" ELSE "approved"

\* C1 (as claimed): the resolution of a closed vote takes effect on its idea
\* once. However often apply_vote_result is called for the vote, the idea has
\* the status and the content the first application left: the status the
\* winner stands for, and the original content followed by one amendment for
\* a compromise and by none otherwise.
C1_ExactlyOnce ==
    (last.applied /\ last.ret \in {"approved", "rejected", "compromise"}) =>
        LET k == FindById(last.after, last.vote.related_idea_id)
            idea == last.after[k]
        IN  /\ idea.status = StatusFor(last.vote.result.winner)
            /\ Cardinality(Amendments(idea))
                   = (IF last.vote.result.winner = "C" THEN 1 ELSE 0)

\* a is b with some elements left out.
IsSubSeq(a, b) ==
    \E f \in [1..Len(a) -> 1..Len(b)] :
        /\ \A i \in 1..Len(a) : a[i] = b[f[i]]
        /\ \A i \in 1..Len(a), j \in 1..Len(a) : i < j => f[i] < f[j]

\* C2: the forced-ending flag is used once. A chapter request carries the
\* ending directive exactly when the flag is set at that moment; a generation
\* that returns a chapter while the flag is set leaves the session stopped and
\* the flag cleared; and only the ending command sets the flag, so no later
\* request carries the directive unless the command is given again.
C2_OneShotStep ==
    /\ last'.issued => (last'.directive = novel.force_ending)
    /\ (last'.ret = "chapter" /\ novel.force_ending) =>
           (novel'.status = "stopped" /\ ~novel'.force_ending)
    /\ (~novel.force_ending /\ novel'.force_ending) => last'.op = "cn_ending"

C2_OneShot == [][C2_OneShotStep]_vars

\* An ending chapter followed by an ordinary one.
C2_Witness ==
    /\ Len(novel.chapters) = 2
    /\ novel.chapters[1].ending
    /\ ~novel.chapters[2].ending
    /\ last.ret = "chapter"
    /\ ~last.directive
    /\ ~novel.force_ending

\* C3 (as claimed): a stored chapter and the messages it was written from are
\* never on disk together: no chapter of the novel has all its source
\* messages in the buffer.
C3_Atomic ==
    \A i \in 1..Len(novel.chapters) :
        \E k \in 1..Len(novel.chapters[i].src) :
            \A j \in 1..Len(messages) : messages[j] # novel.chapters[i].src[k]

\* C4: when generate_chapter returns a chapter, the chapter list is one longer
\* than before the call and the buffer is empty.
C4_ReturnedStep ==
    last'.ret = "chapter" =>
        /\ Len(novel'.chapters) = Len(novel.chapters) + 1
        /\ SubSeq(novel'.chapters, 1, Len(novel.chapters)) = novel.chapters
        /\ messages' = <<>>

C4_Returned == [][C4_ReturnedStep]_vars

C4_Witness ==
    /\ last.ret = "chapter"
    /\ Len(novel.chapters) = 2
    /\ messages = <<>>
    /\ sent = 3

\* C5: in on_group_message, with n the size of the buffer after the append,
\* the quality gate is asked and a chapter requested only if n > 0 and n is a
\* multiple of the threshold; at any other n the handler appends the message
\* (and records its sender as a contributor) and does nothing else.
C5_TriggerStep ==
    last'.op = "on_group_message" =>
        LET n == Len(messages) + 1
            multiple == n > 0 /\ n % cfg.threshold = 0
        IN  /\ last'.n = n
            /\ (last'.gate # "none" \/ last'.issued) => multiple
            /\ ~multiple =>
                   /\ last'.gate = "none" /\ last'.filter = "none" /\ ~last'.issued
                   /\ Len(messages') = n
                   /\ SubSeq(messages', 1, n - 1) = messages
                   /\ novel' = [novel EXCEPT !.contributors = novel'.contributors]

C5_Trigger == [][C5_TriggerStep]_vars

\* The gate is asked at the threshold.
C5_Witness ==
    /\ last.op = "on_group_message"
    /\ last.gate # "none"
    /\ cfg.threshold = 2
    /\ last.n = 2

\* C6: when the gate finds the buffer insufficient at a trigger, no chapter is
\* generated, and the buffer is left as it was when the gate was asked or,
\* with the filter enabled, replaced by a non-empty subsequence of itself; it
\* is left as it was when the filter fails, answers what does not parse, or
\* keeps no message.
C6_InsufficientStep ==
    (last'.op = "on_group_message" /\ last'.gate = "insufficient") =>
        \E sender \in ChatSenders :
            LET asked == add_message_buffer(messages, sender, sent')
            IN  /\ novel'.chapters = novel.chapters
                /\ ~last'.issued /\ last'.ret = "none"
                /\ \/ messages' = asked
                   \/ cfg.filter_enabled /\ messages' # <<>> /\ IsSubSeq(messages', asked)
                /\ (last'.filter # "ok" \/ ~last'.selected) => messages' = asked

C6_Insufficient == [][C6_InsufficientStep]_vars

\* The filter has kept some of the messages and dropped others.
C6_Witness ==
    /\ last.op = "on_group_message"
    /\ last.gate = "insufficient"
    /\ last.filter = "ok"
    /\ last.selected
    /\ 0 < Len(messages)
    /\ Len(messages) < last.n

\* C7: a merge by _update_characters, whatever its candidates, and a chapter
\* generation, whatever character updates it is answered, leave every locked
\* character where it is, with its description and its novel name.
C7_LockedStep ==
    last'.op \in {"_update_characters", "on_group_message", "cn_generate_now"} =>
        \A i \in 1..Len(novel.characters) :
            novel.characters[i].locked =>
                /\ i <= Len(novel'.characters)
                /\ novel'.characters[i].locked
                /\ novel'.characters[i].real_name = novel.characters[i].real_name
                /\ novel'.characters[i].description = novel.characters[i].description
                /\ novel'.characters[i].novel_name = novel.characters[i].novel_name

C7_Locked == [][C7_LockedStep]_vars

\* A merge with a candidate for a locked character, next to a character the
\* backend has described.
C7_Witness ==
    /\ last.op = "_update_characters"
    /\ last.aimed
    /\ \E i \in 1..Len(novel.characters) :
           novel.characters[i].locked /\ novel.characters[i].description = "d2"

\* The open votes a step closes.
ClosedNow(i) == votes[i].status = "open" /\ votes'[i].status = "closed"

\* Idea i changes status by the resolution of its own vote, closed in this
\* step.
ByVote(i) ==
    \E v \in 1..Len(votes) :
        /\ ClosedNow(v)
        /\ votes[v].related_idea_id = ideas[i].id
        /\ ideas'[i].status = StatusFor(votes'[v].result.winner)

StatusStep(i, extra) ==
    \/ ideas'[i].status = ideas[i].status
    \/ ideas[i].status = "pending" /\ ideas'[i].status \in {"approved", "rejected", "conflict"}
    \/ ideas[i].status = "conflict" /\ ideas'[i].status \in {"approved", "rejected"} /\ ByVote(i)
    \/ extra /\ ideas[i].status = "rejected" /\ ideas'[i].status = "approved"

Lifecycle(extra) ==
    /\ Len(ideas') >= Len(ideas)
    /\ \A i \in 1..Len(ideas') :
        IF i <= Len(ideas)
        THEN ideas'[i].id = ideas[i].id /\ StatusStep(i, extra)
        ELSE ideas'[i].status = "pending"

\* C8 (as claimed): an idea is created pending, and its status changes only
\* from pending to approved, rejected or conflict, and from conflict to
\* approved or rejected by the result of its vote.
C8_LifecycleAsClaimed == [][Lifecycle(FALSE)]_vars

\* C8 (amended): an idea is created pending, and its status changes only from
\* pending to approved, rejected or conflict, from conflict to approved or
\* rejected by the result of its vote, and from rejected to approved by the
\* force-approve command.
C8_Lifecycle == [][Lifecycle(last'.op = "cmd_force_approve")]_vars

C8_Witness ==
    /\ last.op = "cmd_force_approve"
    /\ \E i \in 1..Len(ideas) : ideas[i].status = "approved" /\ ideas[i].weighted_avg = 600
    /\ \E i \in 1..Len(ideas) : ideas[i].status = "approved" /\ Amendments(ideas[i]) # {}

\* C9: applied to a vote made by create_conflict_vote, apply_vote_result
\* approves the related idea when A wins, rejects it when B wins, and when C
\* wins approves it and appends the amendment note (the label of option C) to
\* the content it had; nothing else of any idea changes, and with no related
\* idea, or a related idea that is not stored, no idea changes at all.
C9_ApplyVoteResult ==
    last.applied =>
        LET vote == last.vote
            k == FindById(last.before, vote.related_idea_id)
            winner == vote.result.winner
        IN  IF vote.related_idea_id = 0 \/ k = 0
            THEN last.after = last.before
            ELSE /\ winner \in {"A", "B", "C"}
                 /\ winner = "A" =>
                       last.after = [last.before EXCEPT ![k].status = "approved"]
                 /\ winner = "B" =>
                       last.after = [last.before EXCEPT ![k].status = "rejected"]
                 /\ winner = "C" =>
                       last.after =
                           [last.before EXCEPT
                               ![k].status = "approved",
                               ![k].content =
                                   last.before[k].content
                                       \o <<[kind |-> "amend", val |-> vote.options[3].label]>>]
                 /\ ideas = last.after

C9_Witness ==
    /\ last.applied
    /\ last.op = "cmd_close_vote"
    /\ last.vote.result.winner = "C"
    /\ \E i \in 1..Len(ideas) :
        /\ ideas[i].id = last.vote.related_idea_id
        /\ ideas[i].status = "approved"
        /\ ideas[i].content = <<Text("x"), Amendment("s")>>

RECURSIVE SumOver(_, _)
SumOver(S, f) ==
    IF S = {} THEN 0
    ELSE LET x == CHOOSE y \in S : TRUE IN f[x].overall + SumOver(S \ {x}, f)

Abs(x) == IF x < 0 THEN -x ELSE x

Permutations3 == {p \in [1..3 -> 1..3] : \A i, j \in 1..3 : i # j => p[i] # p[j]}

\* C10: after score_idea, weighted_avg (in tenths) is the tenth nearest to the
\* mean of the scores of the judges that answered with a score, and of no
\* others; it is 0 when there is none; it is the same for every order of the
\* judges; and 80, 70, 75 give 75.0.
C10_WeightedAvg ==
    (last.op = "score_idea" /\ ~last.raised) =>
        LET outs == last.outs
            valid == {i \in 1..3 : outs[i].kind = "ok"}
            n == Cardinality(valid)
            w == ideas[last.id].weighted_avg
            fresh == submit_idea(SubSeq(ideas, 1, last.id - 1), "x")
        IN  /\ n = 0 => w = 0
            /\ n > 0 => /\ 2 * Abs(10 * SumOver(valid, outs) - n * w) <= n
                        /\ Len(ideas[last.id].scores) = n
            /\ \A p \in Permutations3 :
                 score_idea(fresh, last.id, [i \in 1..3 |-> outs[p[i]]])[last.id].weighted_avg = w
            /\ outs = <<Ok(80), Ok(70), Ok(75)>> => w = 750

C10_Witness ==
    /\ last.op = "score_idea"
    /\ last.outs = <<Ok(80), Failed, Ok(75)>>
    /\ ideas[last.id].weighted_avg = 775
    /\ ideas[last.id].scores = <<80, 75>>

\* C11: when every judge fails, scoring fails closed. The scoring itself
\* leaves the stored ideas and votes as submit_idea left them and sends the
\* command to the rejection; the rejection answers that the score did not
\* pass and marks the idea rejected, with no conflict check and no vote.
C11_FailClosedStep ==
    /\ (last'.op = "score_idea" /\ ~last'.raised /\ ValidScores(last'.outs) = <<>>) =>
           /\ ideas' = ideas
           /\ votes' = votes
           /\ pc' = At("reject", pc.id, NoInfo)
    /\ pc.at = "reject" =>
           /\ last'.op = "reject_idea"
           /\ last'.reply = "score_not_passed"
           /\ ideas'[pc.id].status = "rejected"
           /\ ideas'[pc.id].conflict_info = NoInfo
           /\ votes' = votes
           /\ pc' = AtRest

C12_FailOpenStep ==
    /\ (pc.at = "check" /\ pc'.report.kind = "default") =>
           /\ ~pc'.report.has_conflict
           /\ ideas' = ideas
           /\ votes' = votes
           /\ pc'.at = "approve" /\ pc'.id = pc.id
    /\ pc.at = "approve" =>
           /\ last'.op = "approve_idea"
           /\ ideas'[pc.id].status = "approved"
           /\ ideas'[pc.id].conflict_info = ideas[pc.id].conflict_info
           /\ votes' = votes
           /\ pc' = AtRest

C12_FailOpen == [][C12_FailOpenStep]_vars

\* An idea approved after a conflict check that stored no report.
C12_Witness ==
    /\ last.op = "approve_idea"
    /\ ideas[1].status = "approved"
    /\ ideas[1].conflict_info = NoInfo
    /\ ideas[1].scores # <<>>
    /\ votes = <<>>

\* ------------------------------------------------------ the votes, in depth
\* VoteManager called directly: any caller, any vote id (one past the last is
\* the id of no vote), any key.
NoVote == <<>>

\* What cast_vote returns: whether it succeeded and which message it gives.
cast_vote_ret(vs, id, u, key) ==
    LET k == FindById(vs, id) IN
    IF k = 0 THEN [ok |-> FALSE, msg |-> "not_found"]
    ELSE IF vs[k].status # "open" THEN [ok |-> FALSE, msg |-> "closed"]
    ELSE IF key \notin ValidKeys(vs[k]) THEN [ok |-> FALSE, msg |-> "invalid_option"]
    ELSE IF vs[k].ballots[u] # "" THEN [ok |-> TRUE, msg |-> "changed"]
    ELSE [ok |-> TRUE, msg |-> "cast"]

\* What close_vote returns: the stored record after the call, or None.
close_vote_ret(vs, id) ==
    LET k == FindById(vs, id) IN
    IF k = 0 THEN NoVote ELSE <<close_vote(vs, id)[k]>>

CastVote(ids, users) ==
    \E id \in ids, u \in users, key \in OptionInputs :
        /\ pc.at = "idle"
        /\ votes' = cast_vote(votes, id, u, key)
        /\ last' = [op |-> "cast_vote", applied |-> FALSE, id |-> id, user |-> u,
                    key |-> key, ret |-> cast_vote_ret(votes, id, u, key)]
        /\ UNCHANGED <<otherVars, ideas, now, pc, chatVars, book>>

CloseVote(ids) ==
    \E id \in ids :
        /\ pc.at = "idle"
        /\ votes' = close_vote(votes, id)
        /\ last' = [op |-> "close_vote", applied |-> FALSE, id |-> id,
                    ret |-> close_vote_ret(votes, id)]
        /\ UNCHANGED <<otherVars, ideas, now, pc, chatVars, book>>

\* One vote on the three options of a conflict, three users.
TallyOptions == ConflictOptions([suggestion |-> "s"])

InitTally ==
    /\ ideas = <<>>
    /\ votes = create_vote(<<>>, TallyOptions, 0, 0)
    /\ now = 0
    /\ pc = AtRest
    /\ InitChatIdle
    /\ last = Did("create_vote")

TallyCast == CastVote({1, 2}, Users)
TallyClose == CloseVote({1, 2})

NextTally ==
    \/ TallyCast
    \/ TallyClose

SpecTally == InitTally /\ [][NextTally]_vars

\* Several votes, created at different times, one user.
VoteIds == 1..(MaxVotes + 1)

VotesCreate ==
    /\ pc.at = "idle"
    /\ Len(votes) < MaxVotes
    /\ votes' = create_vote(votes, TallyOptions, 0, now)
    /\ last' = Did("create_vote")
    /\ UNCHANGED <<otherVars, ideas, now, pc, chatVars, book>>

VotesCast == CastVote(VoteIds, GovUsers)
VotesClose == CloseVote(VoteIds)

VotesAutoClose ==
    /\ pc.at = "idle"
    /\ votes' = auto_close_expired(votes, now)
    /\ last' = [op |-> "auto_close_expired", applied |-> FALSE,
                ret |-> ExpiredClosed(votes, now)]
    /\ UNCHANGED <<otherVars, ideas, now, pc, chatVars, book>>

NextVotes ==
    \/ VotesCreate
    \/ VotesCast
    \/ VotesClose
    \/ VotesAutoClose
    \/ Tick

SpecVotes == Init /\ [][NextVotes]_vars

\* The ballots of a vote for a key, counted from the ballots themselves.
Count(v, key) == Cardinality({u \in Users : v.ballots[u] = key})

\* C13: when close_vote closes an open vote, result.tally has one entry per
\* declared option, in declaration order, each the number of ballots for its
\* key; the entries sum to the number of ballots, and so does total_votes.
C13_TallyStep ==
    \A k \in 1..Len(votes) :
        ClosedNow(k) =>
            LET v == votes[k]
                r == votes'[k].result
                counts == [i \in 1..Len(r.tally) |-> r.tally[i].n]
            IN  /\ votes'[k].ballots = v.ballots
                /\ Len(r.tally) = Len(v.options)
                /\ \A i \in 1..Len(v.options) :
                       /\ r.tally[i].key = v.options[i].key
                       /\ r.tally[i].n = Count(v, v.options[i].key)
                /\ SumSeq(counts) = Cardinality(Voters(v))
                /\ r.total_votes = Cardinality(Voters(v))

C13_Tally == [][C13_TallyStep]_vars

\* The example of the claim: u1:A, u2:A, u3:B closed with A:2, B:1, C:0.
C13_Witness ==
    /\ votes[1].status = "closed"
    /\ votes[1].ballots = [u \in Users |-> IF u = "u3" THEN "B" ELSE "A"]
    /\ votes[1].result.tally =
           <<[key |-> "A", n |-> 2], [key |-> "B", n |-> 1], [key |-> "C", n |-> 0]>>
    /\ votes[1].result.total_votes = 3

\* C14: the winner close_vote records is a declared key with the greatest
\* count, and the first such key in declaration order.
C14_WinnerStep ==
    \A k \in 1..Len(votes) :
        ClosedNow(k) =>
            LET v == votes[k]
                w == votes'[k].result.winner
            IN  \E i \in 1..Len(v.options) :
                    /\ v.options[i].key = w
                    /\ \A j \in 1..Len(v.options) :
                           Count(v, v.options[j].key) <= Count(v, w)
                    /\ \A j \in 1..(i - 1) :
                           Count(v, v.options[j].key) < Count(v, w)

C14_Winner == [][C14_WinnerStep]_vars

\* B and C tie above A: B wins.
C14_Witness ==
    /\ votes[1].status = "closed"
    /\ Count(votes[1], "A") = 0
    /\ Count(votes[1], "B") = 1
    /\ Count(votes[1], "C") = 1
    /\ votes[1].result.winner = "B"

\* Every stored ballot is for a declared option.
ValidBallots ==
    \A k \in 1..Len(votes) : \A u \in Voters(votes[k]) :
        votes[k].ballots[u] \in ValidKeys(votes[k])

\* cast_vote with a key the vote does not declare fails and stores nothing.
RefusesUndeclared ==
    last'.op = "cast_vote" =>
        LET k == FindById(votes, last'.id) IN
        (k # 0 /\ last'.key \notin ValidKeys(votes[k])) =>
            /\ ~last'.ret.ok
            /\ votes' = votes

\* C15: in every reachable state every stored ballot is the key of a declared
\* option of its vote; a cast with an undeclared key fails and leaves the
\* ballots as they were.
C15_ValidBallots == []ValidBallots /\ [][RefusesUndeclared]_vars

\* A refused cast, next to ballots that were accepted.
C15_Witness ==
    /\ last.op = "cast_vote"
    /\ last.id = 1
    /\ last.key = "Z"
    /\ last.ret = [ok |-> FALSE, msg |-> "invalid_option"]
    /\ Cardinality(Voters(votes[1])) = 2

\* A successful cast stores the key as the caller's only ballot and touches no
\* other ballot.
UpsertStep ==
    last'.op = "cast_vote" =>
        LET k == FindById(votes, last'.id) IN
        (k # 0 /\ votes[k].status = "open" /\ last'.key \in ValidKeys(votes[k])) =>
            /\ last'.ret.ok
            /\ votes'[k].ballots[last'.user] = last'.key
            /\ \A u \in Users \ {last'.user} :
                   votes'[k].ballots[u] = votes[k].ballots[u]

\* The result says "changed" exactly when the caller had another key before.
ReportsChangeStep ==
    last'.op = "cast_vote" =>
        LET k == FindById(votes, last'.id) IN
        (k # 0 /\ votes[k].status = "open" /\ last'.key \in ValidKeys(votes[k])) =>
            ((last'.ret.msg = "changed") <=>
                 /\ votes[k].ballots[last'.user] # ""
                 /\ votes[k].ballots[last'.user] # last'.key)

C16_UpsertOnly == [][UpsertStep]_vars

\* C16: a cast with a declared key on an open vote leaves the caller with
\* exactly that ballot and every other user's ballot untouched, and its result
\* reports a changed choice exactly when the caller had a prior ballot for a
\* different key.
C16_Upsert == [][UpsertStep /\ ReportsChangeStep]_vars

\* A closed vote is left as it is by every step.
ClosedStays ==
    \A k \in 1..Len(votes) :
        votes[k].status = "closed" => (k <= Len(votes') /\ votes'[k] = votes[k])

\* cast_vote on a closed vote fails.
CastOnClosedFails ==
    last'.op = "cast_vote" =>
        LET k == FindById(votes, last'.id) IN
        (k # 0 /\ votes[k].status = "closed") =>
            /\ last'.ret = [ok |-> FALSE, msg |-> "closed"]
            /\ votes' = votes

\* close_vote on a closed vote returns the record as it was closed.
CloseAgainSame ==
    last'.op = "close_vote" =>
        LET k == FindById(votes, last'.id) IN
        (k # 0 /\ votes[k].status = "closed") =>
            /\ last'.ret = <<votes[k]>>
            /\ votes' = votes

\* C17: once a vote is closed no step reopens it or changes its ballots or its
\* result; cast_vote on it fails, and close_vote on it returns the same closed
\* record, tally and winner included.
C17_ClosedTerminal == [][ClosedStays /\ CastOnClosedFails /\ CloseAgainSame]_vars

\* A vote closed with a ballot, and a later ballot for another key refused.
C17_Witness ==
    /\ last.op = "cast_vote"
    /\ last.key = "B"
    /\ last.ret = [ok |-> FALSE, msg |-> "closed"]
    /\ votes[last.id].status = "closed"
    /\ votes[last.id].result.winner = "A"
    /\ votes[last.id].result.total_votes = 1

\* The votes auto_close_expired has to close at the current time.
Due(k) == votes[k].status = "open" /\ votes[k].closes_at <= now

AutoCloseStep ==
    last'.op = "auto_close_expired" =>
        /\ Len(votes') = Len(votes)
        /\ \A k \in 1..Len(votes) :
               IF Due(k)
               THEN /\ votes'[k].status = "closed"
                    /\ votes'[k].ballots = votes[k].ballots
                    /\ votes'[k].result.total_votes = Cardinality(Voters(votes[k]))
                    /\ votes'[k].result.winner = Winner(Tally(votes[k]))
                    /\ \E i \in 1..Len(last'.ret) : last'.ret[i] = votes'[k]
               ELSE /\ votes'[k] = votes[k]
                    /\ \A i \in 1..Len(last'.ret) : last'.ret[i].id # votes[k].id
        /\ Len(last'.ret) = Cardinality({k \in 1..Len(votes) : Due(k)})

\* C18: auto_close_expired closes exactly the open votes whose closes_at is at
\* or before the current time and returns exactly those, with their results;
\* every other vote, open and not yet due or already closed, is unchanged and
\* is not returned.
C18_AutoClose == [][AutoCloseStep]_vars

\* One vote due and closed by the call, one closed before, one not yet due.
C18_Witness ==
    /\ last.op = "auto_close_expired"
    /\ Len(last.ret) = 1
    /\ Len(votes) = 2
    /\ last.ret[1] = votes[1]
    /\ votes[1].closes_at = now
    /\ votes[1].result.total_votes = 1
    /\ votes[2].status = "open"

\* ------------------------------------------------- the scene pipeline
\* The scene commands of one group on novel.json. The answers of the backend
\* are tokens; a save may fail.
SceneOuts == {[kind |-> "fail", text |-> ""], [kind |-> "ok", text |-> ""],
              [kind |-> "ok", text |-> "w"]}
ReviseOuts ==
    {[kind |-> "pass1_failed", revised |-> "", final |-> ""],
     [kind |-> "pass2_failed", revised |-> "", final |-> ""],
     [kind |-> "ok", revised |-> "r", final |-> "failed"],
     [kind |-> "ok", revised |-> "r", final |-> "q"]}
Segments == {<<"u">>, <<"", "u">>, <<"u", "">>, <<"", "u", "v">>}
GuidedOuts ==
    {[kind |-> "fail", whole |-> "", segs |-> <<>>],
     [kind |-> "ok", whole |-> "", segs |-> <<>>]}
        \cup {[kind |-> "ok", whole |-> "g", segs |-> segs] : segs \in Segments}
SaveFaults == {"none", "save"}
SumOuts == {"ok", "fail"}
NoGlobal == [kind |-> "fail", len |-> 0]
GlobOuts == {NoGlobal, [kind |-> "ok", len |-> 1], [kind |-> "ok", len |-> SummaryCap + 1]}

TotalScenes(b) == SumSeq([c \in 1..Len(b.chapters) |-> Len(b.chapters[c].scenes)])

\* The revision entries of the whole book.
TotalRevisions(b) ==
    SumSeq([c \in 1..Len(b.chapters) |->
               SumSeq([s \in 1..Len(b.chapters[c].scenes) |->
                          Len(b.chapters[c].scenes[s].revisions)])])

cmd_init ==
    /\ pc.at = "idle"
    /\ ~is_initialized(book)
    /\ book' = initialize("t")
    /\ last' = Did("initialize")
    /\ UNCHANGED <<otherVars, ideaVars, pc, chatVars>>

cmd_new_chapter ==
    /\ pc.at = "idle"
    /\ is_initialized(book)
    /\ Len(book.chapters) < MaxChapters
    /\ book' = add_chapter(book)
    /\ last' = [op |-> "add_chapter", applied |-> FALSE,
                ret |-> add_chapter(book).chapters[Len(book.chapters) + 1]]
    /\ UNCHANGED <<otherVars, ideaVars, pc, chatVars>>

\* cmd_write: generate_scene on the current chapter.
CmdWrite(outs, sumOuts, globOuts, faults) ==
    \E out \in outs, sumOut \in sumOuts, globOut \in globOuts, fault \in faults :
        /\ pc.at = "idle"
        /\ is_initialized(book)
        /\ book.chapters # <<>>
        /\ TotalScenes(book) < MaxScenes
        /\ book' = generate_scene(book, out, sumOut, globOut, fault)
        /\ last' = [op |-> "generate_scene", applied |-> FALSE,
                    out |-> out, sumOut |-> sumOut, globOut |-> globOut,
                    calls |-> generate_scene_calls(book, out),
                    ret |-> IF out.kind = "ok" /\ out.text # "" /\ fault = "none"
                            THEN "scene" ELSE "none"]
        /\ UNCHANGED <<otherVars, ideaVars, pc, chatVars>>

cmd_write == CmdWrite(SceneOuts, {"ok"}, {NoGlobal}, {"none"})

\* cmd_revise: the three passes on the latest scene.
CmdRevise(outs, sumOuts, globOuts, faults) ==
    \E out \in outs, sumOut \in sumOuts, globOut \in globOuts, fault \in faults :
        LET at == get_latest_scene(book) IN
        /\ pc.at = "idle"
        /\ is_initialized(book)
        /\ at # <<0, 0>>
        /\ TotalRevisions(book) < MaxRevisions
        /\ book' = revise_scene(book, at[1], at[2], out, sumOut, globOut, fault)
        /\ last' = [op |-> "revise_scene", applied |-> FALSE, c |-> at[1], s |-> at[2],
                    out |-> out, sumOut |-> sumOut, globOut |-> globOut,
                    calls |-> revise_scene_calls(book, at[1], at[2], out),
                    ret |-> IF out.kind # "ok" THEN "none"
                            ELSE IF fault = "save" THEN "raised" ELSE "scene"]
        /\ UNCHANGED <<otherVars, ideaVars, pc, chatVars>>

cmd_revise == CmdRevise(ReviseOuts, {"ok"}, {NoGlobal}, SaveFaults)

\* cmd_revise_chapter and cmd_finish_revision: the user-guided revision of a
\* chapter, by its number.
CmdReviseChapter(outs, globOuts, faults) ==
    \E chapter_number \in 1..(MaxChapters + 1), out \in outs, globOut \in globOuts,
       fault \in faults :
        LET k == FirstIndex({i \in 1..Len(book.chapters) :
                                book.chapters[i].number = chapter_number})
        IN
        /\ pc.at = "idle"
        /\ is_initialized(book)
        /\ k # 0 => TotalRevisions(book) + Len(book.chapters[k].scenes) <= MaxRevisions
        /\ book' = revise_chapter_with_user_input(book, chapter_number, out, globOut, fault)
        /\ last' = [op |-> "revise_chapter_with_user_input", applied |-> FALSE,
                    c |-> k, out |-> out,
                    ret |-> IF k = 0 \/ out.kind # "ok" \/ out.whole = "" \/ fault = "save"
                            THEN "none"
                            ELSE IF book.chapters[k].scenes = <<>> THEN "none"
                            ELSE "chapter"]
        /\ UNCHANGED <<otherVars, ideaVars, pc, chatVars>>

cmd_revise_chapter == CmdReviseChapter(GuidedOuts, {NoGlobal}, SaveFaults)

\* cmd_reset -> reset_all(): the data directory of the group is removed.
cmd_reset ==
    /\ pc.at = "idle"
    /\ ideas' = <<>>
    /\ votes' = <<>>
    /\ novel' = DefaultChatNovel
    /\ messages' = <<>>
    /\ book' = DefaultNovel
    /\ last' = Did("reset_all")
    /\ UNCHANGED <<otherVars, now, pc, sent, cfg>>

NextBook ==
    \/ cmd_init
    \/ cmd_new_chapter
    \/ cmd_write
    \/ cmd_revise
    \/ cmd_revise_chapter
    \/ cmd_reset

SpecBook == Init /\ [][NextBook]_vars

\* ------------------------------------------------- the chapters of a group
\* The handlers that add, replace or remove chapters, of the chat novel and
\* of the scene pipeline, with every message triggering a generation.
cn_rewrite ==
    \E ch_num \in 1..(MaxChapters + 1), out \in ChatGenOuts, fault \in {"none", "save_novel"} :
        /\ pc.at = "idle"
        /\ novel.chapters # <<>>
        /\ \E i \in 1..Len(novel.chapters) : novel.chapters[i].number = ch_num
        /\ novel' = rewrite_chapter(novel, ch_num, out, fault)
        /\ last' = [ChatDid("cn_rewrite") EXCEPT
                        !.n = ch_num,
                        !.ret = IF out.kind = "fail" \/ fault = "save_novel"
                                THEN "none" ELSE "chapter"]
        /\ UNCHANGED <<otherVars, ideaVars, pc, messages, sent, cfg, book>>

ChaptersGenerate == MsgGenerate(ChatSenders, {"sufficient"}, {NoMap}, ChatGenOuts, Faults)
ChaptersGenerateNow == CnGenerateNow({NoMap}, ChatGenOuts, Faults)

NextChapters ==
    \/ ChaptersGenerate
    \/ ChaptersGenerateNow
    \/ cn_rewrite
    \/ cn_resume
    \/ cn_delete
    \/ cmd_init
    \/ cmd_new_chapter
    \/ cmd_reset

SpecChapters == InitChars /\ [][NextChapters]_vars

\* The chapters of a list carry the numbers 1, 2, ... in list order.
Numbered(chapters) == \A i \in 1..Len(chapters) : chapters[i].number = i

NumberedAll == Numbered(novel.chapters) /\ Numbered(book.chapters)

\* A creation that succeeds appends one chapter; a rewrite and a generation
\* that stores nothing leave the length of the list.
CreationStep ==
    /\ (last'.op \in {"on_group_message", "cn_generate_now"} /\ last'.ret = "chapter") =>
           /\ Len(novel'.chapters) = Len(novel.chapters) + 1
           /\ novel'.chapters[Len(novel'.chapters)].number = Len(novel.chapters) + 1
    /\ last'.op = "cn_rewrite" =>
           /\ Len(novel'.chapters) = Len(novel.chapters)
           /\ \A i \in 1..Len(novel.chapters) :
                  novel'.chapters[i].number = novel.chapters[i].number
    /\ last'.op = "add_chapter" =>
           /\ Len(book'.chapters) = Len(book.chapters) + 1
           /\ last'.ret.number = Len(book.chapters) + 1
           /\ book'.chapters[Len(book'.chapters)] = last'.ret

ScenePlaces(b) ==
    {p \in (1..MaxChapters + 1) \X (1..MaxScenes + 1) :
        p[1] <= Len(b.chapters) /\ p[2] <= Len(b.chapters[p[1]].scenes)}

SceneAt(b, p) == b.chapters[p[1]].scenes[p[2]]

VersionsMatch ==
    \A p \in ScenePlaces(book) :
        SceneAt(book, p).version = Len(SceneAt(book, p).revisions) + 1

\* The scene at p was revised by the step: its old content is filed last,
\* under its old version, after the entries it had.
RevisedAt(p) ==
    LET old == SceneAt(book, p)
        new == SceneAt(book', p)
    IN  /\ Len(new.revisions) = Len(old.revisions) + 1
        /\ \A i \in 1..Len(old.revisions) : new.revisions[i] = old.revisions[i]
        /\ new.revisions[Len(new.revisions)].version = old.version
        /\ new.revisions[Len(new.revisions)].content = old.content
        /\ new.version = old.version + 1

RevisionStep ==
    /\ (last'.op = "revise_scene" /\ last'.ret = "scene") =>
           RevisedAt(<<last'.c, last'.s>>)
    /\ (last'.op = "revise_chapter_with_user_input" /\ last'.ret = "chapter") =>
           \A p \in ScenePlaces(book) : p[1] = last'.c => RevisedAt(p)
    /\ last'.op # "reset_all" =>
           \A p \in ScenePlaces(book) :
               /\ p \in ScenePlaces(book')
               /\ \A i \in 1..Len(SceneAt(book, p).revisions) :
                      SceneAt(book', p).revisions[i] = SceneAt(book, p).revisions[i]

\* C20: in every reachable state the version of each scene is the length of
\* its revisions list plus one; a successful revision, three-pass or
\* user-guided, appends the previous content under the previous version, and
\* no step short of a reset alters or removes an earlier revision entry.
C20_Revisions == []VersionsMatch /\ [][RevisionStep]_vars

\* A scene revised twice: by the three passes, then by a user-guided
\* revision of its chapter.
C20_Witness ==
    /\ last.op = "revise_chapter_with_user_input"
    /\ last.ret = "chapter"
    /\ \E p \in ScenePlaces(book) :
           /\ p[1] = last.c
           /\ SceneAt(book, p).version = 3
           /\ SceneAt(book, p).revisions[1] = [version |-> 1, content |-> "w"]
           /\ SceneAt(book, p).revisions[2] =
                  [version |-> 2, content |-> "q", revision_type |-> "user_guided"]

\* ------------------------------------------- the backend calls of a scene
\* Writing and revising the scenes of one chapter, every backend call and
\* the save failing or succeeding.
InitScenes ==
    /\ InitIdeas
    /\ novel = DefaultChatNovel
    /\ messages = <<>>
    /\ sent = 0
    /\ cfg = [threshold |-> 1, filter_enabled |-> FALSE]
    /\ book = add_chapter(initialize("t"))
    /\ groups = NoGroups
    /\ inflight = NoFlight
    /\ disk = NoDisk
    /\ last = Did("add_chapter")

ScenesWrite == CmdWrite(SceneOuts, SumOuts, GlobOuts, SaveFaults)
ScenesRevise == CmdRevise(ReviseOuts, SumOuts, GlobOuts, SaveFaults)

NextScenes ==
    \/ ScenesWrite
    \/ ScenesRevise

SpecScenes == InitScenes /\ [][NextScenes]_vars

\* C21: when the rewrite pass (pass 2) of revise_scene fails, the call
\* reports failure, the proofreading pass (pass 3) is not run, and the stored
\* novel, the scene's content, version, revisions, status and summary and the
\* global summary with it, is unchanged.
C21_RewriteFailsStep ==
    (last'.op = "revise_scene" /\ last'.out.kind = "pass2_failed") =>
        /\ last'.ret = "none"
        /\ "pass3" \notin last'.calls
        /\ "summarize" \notin last'.calls
        /\ "global" \notin last'.calls
        /\ book' = book

C21_RewriteFails == [][C21_RewriteFailsStep]_vars

\* A failed rewrite pass on a scene that was revised before.
C21_Witness ==
    /\ last.op = "revise_scene"
    /\ last.out.kind = "pass2_failed"
    /\ last.calls = {"pass1", "pass2"}
    /\ book.chapters[last.c].scenes[last.s].version = 2
    /\ book.chapters[last.c].scenes[last.s].status = "revised"

\* C22: when the proofreading pass (pass 3) fails after a successful rewrite
\* pass, and the save succeeds, the revision completes: the content is the
\* output of the rewrite pass, the previous content is the last entry of
\* revisions, the version is one more and the status is revised.
C22_ProofreadFailsStep ==
    (/\ last'.op = "revise_scene"
     /\ last'.out.kind = "ok"
     /\ last'.out.final = "failed"
     /\ last'.ret # "raised") =>
        LET old == book.chapters[last'.c].scenes[last'.s]
            new == book'.chapters[last'.c].scenes[last'.s]
        IN  /\ last'.ret = "scene"
            /\ new.content = last'.out.revised
            /\ new.revisions = Append(old.revisions,
                                      [version |-> old.version, content |-> old.content])
            /\ new.version = old.version + 1
            /\ new.status = "revised"

C22_ProofreadFails == [][C22_ProofreadFailsStep]_vars

\* A draft revised with pass 3 failing.
C22_Witness ==
    /\ last.op = "revise_scene"
    /\ last.out.final = "failed"
    /\ last.ret = "scene"
    /\ book.chapters[last.c].scenes[last.s].content = "r"
    /\ book.chapters[last.c].scenes[last.s].revisions = <<[version |-> 1, content |-> "w"]>>

Blank(out) == out.kind # "ok" \/ out.text = ""

\* C23: when the generation call of generate_scene fails or returns blank
\* text, the call reports failure, neither the summary call nor the
\* global-summary call is made, and the stored novel (scenes, summaries,
\* global summary) is unchanged.
C23_EmptyGenerationStep ==
    (last'.op = "generate_scene" /\ Blank(last'.out)) =>
        /\ last'.ret = "none"
        /\ last'.calls = {"generate"}
        /\ book' = book

C23_EmptyGeneration == [][C23_EmptyGenerationStep]_vars

\* A blank answer for a chapter that has a scene already.
C23_Witness ==
    /\ last.op = "generate_scene"
    /\ last.out = [kind |-> "ok", text |-> ""]
    /\ last.ret = "none"
    /\ Len(book.chapters[1].scenes) = 1

\* C25: a generate_scene whose generation and save succeed stores the scene
\* whatever becomes of the two summary calls: with the head of the scene's
\* text as its summary when the summary call fails, and with the global
\* summary as it was when the global-summary call fails.
C25_SoftSummaryStep ==
    (last'.op = "generate_scene" /\ ~Blank(last'.out) /\ last'.ret = "scene") =>
        LET c == Len(book.chapters)
            new == book'.chapters[c].scenes[Len(book'.chapters[c].scenes)]
        IN  /\ Len(book'.chapters[c].scenes) = Len(book.chapters[c].scenes) + 1
            /\ new.content = last'.out.text
            /\ last'.sumOut = "fail" =>
                   new.summary = [kind |-> "truncated", of |-> last'.out.text]
            /\ last'.globOut.kind = "fail" =>
                   book'.global_summary = book.global_summary

C25_SoftSummary == [][C25_SoftSummaryStep]_vars

\* Both summary calls fail for a second scene, after a global summary that
\* was cut to the cap.
C25_Witness ==
    /\ last.op = "generate_scene"
    /\ last.sumOut = "fail"
    /\ last.globOut.kind = "fail"
    /\ last.ret = "scene"
    /\ Len(book.chapters[1].scenes) = 2
    /\ book.chapters[1].scenes[2].summary.kind = "truncated"
    /\ book.global_summary = SummaryCap

\* C27: in a user-guided revision of a chapter with more than one scene, when
\* the number of labelled sections found in the answer is not the number of
\* scenes, the whole answer becomes the content of the first scene and every
\* other scene (content, version, revisions, status) is as it was.
C27_FallbackStep ==
    (last'.op = "revise_chapter_with_user_input" /\ last'.ret = "chapter") =>
        LET old == book.chapters[last'.c].scenes
            new == book'.chapters[last'.c].scenes
        IN  (Len(old) > 1 /\ Len(last'.out.segs) - 1 # Len(old)) =>
                /\ new[1].content = last'.out.whole
                /\ \A i \in 2..Len(old) : new[i] = old[i]

C27_Fallback == [][C27_FallbackStep]_vars

\* ------------------------------------------- the two backend calls, in depth
\* evaluate_quality and generate_chapter are also called directly, and the
\* record of the call keeps the answer of the backend. Every gate call of the
\* handler fails or gives an answer that does not parse.
FailedGates == {"fail", "unparsable"}
GenerateOuts ==
    {NoGen, GenOut("text", 0, 0, 0, <<>>), GenOut("text", 1, 0, 0, <<>>),
     GenOut("json", 1, 1, 0, <<>>), GenOut("json", 1, 0, SummaryCap + 1, <<>>)}

EvaluateQuality ==
    \E gate \in GateOutcomes :
        /\ pc.at = "idle"
        /\ last' = [ChatDid("evaluate_quality") EXCEPT
                        !.n = Len(messages), !.gate = gate,
                        !.ret = IF evaluate_quality(messages, gate)
                                THEN "sufficient" ELSE "insufficient"]
        /\ UNCHANGED <<otherVars, ideaVars, pc, novel, messages, sent, cfg, book>>

GenerateChapter ==
    \E mapOut \in ChatMapOuts, genOut \in GenerateOuts :
        /\ pc.at = "idle"
        /\ Len(novel.chapters) < MaxChapters
        /\ LET g == generate_chapter(novel, messages, get_force_ending(novel),
                                     mapOut, genOut, "none")
           IN  /\ novel' = g.novel
               /\ messages' = g.messages
               /\ last' = [op |-> "generate_chapter", applied |-> FALSE,
                           n |-> Len(messages), mapOut |-> mapOut,
                           genOut |-> genOut, ret |-> g.ret, issued |-> g.issued]
        /\ UNCHANGED <<otherVars, ideaVars, pc, sent, cfg, book>>

GateCollect == MsgCollect(ChatSenders)
GateGenerate == MsgGenerate(ChatSenders, FailedGates, {NoMap}, GenerateOuts, {"none"})

NextGate ==
    \/ cn_start
    \/ cn_stop
    \/ GateCollect
    \/ GateGenerate
    \/ EvaluateQuality
    \/ GenerateChapter
    \/ cn_delete

SpecGate == InitChat /\ [][NextGate]_vars

\* C24: when the generation call of generate_chapter fails or answers with an
\* empty text, the method returns nothing and what is stored is as it was:
\* the chapters, the buffered messages, the characters, the global summary,
\* the status and the force_ending flag.
C24_FailClosedStep ==
    (/\ last'.op = "generate_chapter"
     /\ last'.issued
     /\ \/ last'.genOut.kind = "fail"
        \/ last'.genOut.kind = "text" /\ last'.genOut.len = 0)
        => /\ last'.ret = "none"
           /\ novel' = novel
           /\ messages' = messages

C24_FailClosed == [][C24_FailClosedStep]_vars

\* What does hold of a generation call that fails: nothing is returned, and
\* all but the character list is as it was.
C24_CallFailsStep ==
    (last'.op = "generate_chapter" /\ last'.issued /\ last'.genOut.kind = "fail")
        => /\ last'.ret = "none"
           /\ [novel' EXCEPT !.characters = novel.characters] = novel
           /\ messages' = messages

C24_CallFails == [][C24_CallFailsStep]_vars

\* C26: in every reachable state the stored global summary, of the book and
\* of the chat novel, is at most 500 characters long.
C26_Bounded ==
    /\ book.global_summary <= SummaryCap
    /\ novel.global_summary = "short"

\* The part that holds: the global summary of the book, whatever the scene
\* pipeline is answered.
C26_BookBounded == book.global_summary <= SummaryCap

\* C28: evaluate_quality finds a non-empty buffer sufficient when the call
\* of the gate fails or its answer does not parse, and the handler, whose
\* every gate call fails so, requests the chapter at each trigger.
C28_FailOpenStep ==
    /\ (last'.op = "evaluate_quality" /\ last'.gate \in FailedGates /\ last'.n > 0)
           => last'.ret = "sufficient"
    /\ (last'.op = "on_group_message" /\ Triggered(last'.n, cfg.threshold))
           => last'.gate = "sufficient" /\ last'.issued

C28_FailOpen == [][C28_FailOpenStep]_vars

C28_Witness ==
    /\ last.op = "on_group_message"
    /\ Triggered(last.n, cfg.threshold)
    /\ last.issued
    /\ last.ret = "chapter"
    /\ Len(novel.chapters) = 1

\* The ideas whose status the vote result applied by the handler before
\* turned to rejected.
JustRejected ==
    IF last.applied
    THEN {k \in DOMAIN last.after : /\ last.after[k].status = "rejected"
                                    /\ last.before[k].status # "rejected"}
    ELSE {}

RejectedIdeas(is) == {k \in DOMAIN is : is[k].status = "rejected"}

\* C29: cmd_force_approve sets the status of the most recently rejected idea
\* (the one the handler before rejected, when it rejected one) to approved
\* and leaves its scores, weighted_avg and content, and every other idea, as
\* they were; with no rejected idea it changes nothing.
C29_ForceApproveStep ==
    last'.op = "cmd_force_approve"
        => IF RejectedIdeas(ideas) = {} THEN ideas' = ideas
           ELSE \E k \in RejectedIdeas(ideas) :
                    /\ \A j \in JustRejected : j = k
                    /\ ideas' = [ideas EXCEPT ![k].status = "approved"]

C29_ForceApprove == [][C29_ForceApproveStep]_vars

\* What does hold: the idea approved is the last of the list that is
\* rejected, and nothing else changes.
C29_LastInListStep ==
    last'.op = "cmd_force_approve"
        => \E k \in RejectedIdeas(ideas) :
               /\ \A j \in RejectedIdeas(ideas) : j <= k
               /\ ideas' = [ideas EXCEPT ![k].status = "approved"]

C29_LastInList == [][C29_LastInListStep]_vars

\* -------------------------------------------- the explicit edit, in depth
\* update_character_desc is called directly with any name and one of two
\* texts, between merges that propose a description and lock toggles; the
\* record of the call keeps the name, the text, the character it found (0:
\* none) and the description that character had.
EditDescs == {"d1", "d2"}
EditDrafts == {Draft(r, "y", d, "") : r \in CharNames, d \in EditDescs}
EditInputs == {<<c>> : c \in EditDrafts}

FindCharacter(chars, name) ==
    FirstIndex({i \in 1..Len(chars) :
                   chars[i].real_name = name \/ chars[i].novel_name = name})

EditMerge == UpdateCharacters(EditInputs)
EditLock == \E name \in CharNames : cn_lock_char(name)

UpdateCharacterDesc ==
    \E name \in CharNames \cup {"y", "z"}, new_desc \in EditDescs :
        /\ pc.at = "idle"
        /\ novel' = update_character_desc(novel, name, new_desc)
        /\ LET k == FindCharacter(novel.characters, name)
           IN  last' = [op |-> "update_character_desc", applied |-> FALSE,
                        name |-> name, new_desc |-> new_desc, k |-> k,
                        was |-> IF k = 0 THEN "" ELSE novel.characters[k].description]
        /\ UNCHANGED <<otherVars, ideaVars, pc, messages, sent, cfg, book>>

NextEdit ==
    \/ EditMerge
    \/ EditLock
    \/ UpdateCharacterDesc

SpecEdit == InitChars /\ [][NextEdit]_vars

\* C30: update_character_desc gives the first character with the name (real
\* or novel) the text, locked or not, and leaves its locked flag, every
\* other field and every other character as they were; a merge that names a
\* locked character leaves its description, and the edit after it sets it.
C30_EditStep ==
    /\ last'.op = "update_character_desc" =>
           IF last'.k = 0 THEN novel' = novel
           ELSE novel' = [novel EXCEPT
                              !.characters[last'.k].description = last'.new_desc]
    /\ (last'.op = "_update_characters" /\ last'.aimed) =>
           \A i \in 1..Len(novel.characters) :
               novel.characters[i].locked =>
                   novel'.characters[i] = novel.characters[i]

C30_Edit == [][C30_EditStep]_vars

\* A locked character described d1 that an edit has just described d2.
C30_Witness ==
    /\ last.op = "update_character_desc"
    /\ last.k # 0
    /\ last.was = "d1"
    /\ last.new_desc = "d2"
    /\ novel.characters[last.k].locked
    /\ novel.characters[last.k].description = "d2"

\* ------------------------------------------------- the merge, in depth
\* _update_characters is called directly with one candidate, or two, of any
\* identity (sender id, real name, both or neither), between lock toggles;
\* the record of the call keeps the candidates.
MergeNames == {"", "a"}
MergeDescs == {"", "d1", "d2"}
MergeDrafts ==
    {Draft(r, n, d, sid) :
        r \in MergeNames, n \in {"", "y"}, d \in MergeDescs, sid \in {"", "s1"}}
MergeLists ==
    {<<c>> : c \in MergeDrafts}
        \cup {<<c, d>> : c \in {Draft("a", "", "d1", "s1")},
                          d \in {Draft("a", "y", "d2", ""), Draft("", "", "", "s1")}}

MergeCall ==
    \E new_chars \in MergeLists :
        /\ pc.at = "idle"
        /\ Len(update_characters(novel.characters, new_chars)) <= MaxChars
        /\ novel' = [novel EXCEPT !.characters = update_characters(@, new_chars)]
        /\ last' = [op |-> "update_characters", applied |-> FALSE,
                    new_chars |-> new_chars]
        /\ UNCHANGED <<otherVars, ideaVars, pc, messages, sent, cfg, book>>

MergeLock ==
    \E i \in 1..MaxChars :
        /\ i <= Len(novel.characters)
        /\ novel.characters[i].real_name # ""
        /\ cn_lock_char(novel.characters[i].real_name)

NextMerge ==
    \/ MergeCall
    \/ MergeLock

SpecMerge == InitChars /\ [][NextMerge]_vars

\* The character a candidate stands for: the first with its sender id, else
\* the first with its real name, else none (0).
Resolved(chars, ch) ==
    LET bySid == {i \in 1..Len(chars) : chars[i].sender_id = ch.sender_id}
        byName == {i \in 1..Len(chars) : chars[i].real_name = ch.real_name}
    IN  IF ch.sender_id # "" /\ bySid # {} THEN FirstIndex(bySid)
        ELSE IF ch.real_name # "" /\ byName # {} THEN FirstIndex(byName)
        ELSE 0

UniqueNames ==
    \A i, j \in 1..Len(novel.characters) :
        (i # j /\ novel.characters[i].real_name # "")
            => novel.characters[i].real_name # novel.characters[j].real_name

\* A field after the merge: as it was, or a non-empty one of a candidate.
Incoming(new, old, values) == new = old \/ (new # "" /\ new \in values)

\* C31: a merge keeps every character in place with its sender id, real name
\* and lock, writes nothing to a locked one, and writes to the others only
\* non-empty descriptions and novel names of its candidates; one candidate
\* that resolves (by sender id, else by real name) adds no entry and writes
\* to the resolved character alone, one that does not is appended; and no
\* two characters ever share a non-empty real name.
C31_MergeStep ==
    last'.op = "update_characters" =>
        LET old == novel.characters
            new == novel'.characters
            cs == last'.new_chars
            c == cs[1]
            k == Resolved(old, c)
        IN  /\ Len(new) >= Len(old)
            /\ \A i \in 1..Len(old) :
                   /\ new[i].sender_id = old[i].sender_id
                   /\ new[i].real_name = old[i].real_name
                   /\ new[i].locked = old[i].locked
                   /\ old[i].locked => new[i] = old[i]
                   /\ Incoming(new[i].description, old[i].description,
                               {cs[n].description : n \in 1..Len(cs)})
                   /\ Incoming(new[i].novel_name, old[i].novel_name,
                               {cs[n].novel_name : n \in 1..Len(cs)})
            /\ (Len(cs) = 1 /\ k # 0) =>
                   /\ Len(new) = Len(old)
                   /\ \A i \in 1..Len(old) : i # k => new[i] = old[i]
                   /\ (~old[k].locked /\ c.description # "")
                          => new[k].description = c.description
            /\ (Len(cs) = 1 /\ k = 0) =>
                   /\ Len(new) = Len(old) + 1
                   /\ \A i \in 1..Len(old) : new[i] = old[i]
                   /\ new[Len(new)].real_name = c.real_name
                   /\ new[Len(new)].sender_id = c.sender_id
                   /\ new[Len(new)].description = c.description
                   /\ new[Len(new)].novel_name = c.novel_name

C31_Merge == []UniqueNames /\ [][C31_MergeStep]_vars

\* One candidate with the sender id of one character and the real name of
\* another has been merged: the first took its description.
C31_Witness ==
    /\ last.op = "update_characters"
    /\ Len(last.new_chars) = 1
    /\ Len(novel.characters) = 2
    /\ \E i, j \in 1..2 :
           /\ i # j
           /\ novel.characters[i].sender_id = "s1"
           /\ last.new_chars[1].sender_id = "s1"
           /\ novel.characters[j].real_name = last.new_chars[1].real_name
           /\ last.new_chars[1].real_name # ""
           /\ last.new_chars[1].description = "d2"
           /\ novel.characters[i].description = "d2"
           /\ novel.characters[j].description = "d1"

\* ------------------------------------------------------ groups, side by side
\* groups.files is chat_novel.json of each group: <<>> while the file does
\* not exist, else its one document, of which the status and the custom
\* settings are kept. groups.shared is the list behind "custom_settings" of
\* the module-level _DEFAULT_CHAT_NOVEL: dict(_DEFAULT_CHAT_NOVEL) copies the
\* keys, not the lists, so a document loaded from the default holds that very
\* list. A setting is known by the group that added it.
Groups == {"g1", "g2"}

InitGroups ==
    /\ InitIdeas
    /\ last = Did("idle")
    /\ novel = DefaultChatNovel
    /\ messages = <<>>
    /\ sent = 0
    /\ cfg = [threshold |-> 1, filter_enabled |-> FALSE]
    /\ book = DefaultNovel
    /\ inflight = NoFlight
    /\ disk = NoDisk
    /\ groups = [files |-> [g \in Groups |-> <<>>], shared |-> <<>>]

chat_novel_exists(gs, g) == gs.files[g] # <<>>

\* _load_novel: the document of the file, or the copy of the default.
load_novel(gs, g) ==
    IF chat_novel_exists(gs, g) THEN gs.files[g][1]
    ELSE [status |-> "stopped", custom_settings |-> gs.shared]

save_novel(gs, g, doc) == [gs EXCEPT !.files[g] = <<doc>>]

\* add_custom_setting: the append is made on the list of the loaded document.
add_custom_setting(gs, g, content) ==
    LET nv == load_novel(gs, g)
        settings == Append(nv.custom_settings, content)
        appended == IF chat_novel_exists(gs, g) THEN gs
                    ELSE [gs EXCEPT !.shared = settings]
    IN  save_novel(appended, g, [nv EXCEPT !.custom_settings = settings])

start(gs, g) == save_novel(gs, g, [load_novel(gs, g) EXCEPT !.status = "collecting"])

stop(gs, g) == save_novel(gs, g, [load_novel(gs, g) EXCEPT !.status = "stopped"])

\* reset: the default is saved.
reset(gs, g) == save_novel(gs, g, [status |-> "stopped", custom_settings |-> gs.shared])

\* GroupContext.reset_all: the directory of the group is removed.
reset_all(gs, g) == [gs EXCEPT !.files[g] = <<>>]

GroupDid(op, g) == [op |-> op, applied |-> FALSE, group |-> g]

GroupStep(op, g, after) ==
    /\ groups' = after
    /\ last' = GroupDid(op, g)
    /\ UNCHANGED <<ideaVars, pc, chatVars, book, inflight, disk>>

cn_setting ==
    \E g \in Groups :
        /\ Len(load_novel(groups, g).custom_settings) < MaxSettings
        /\ GroupStep("cn_setting", g, add_custom_setting(groups, g, g))

GroupStart ==
    \E g \in Groups :
        /\ load_novel(groups, g).status # "collecting"
        /\ GroupStep("cn_start", g, start(groups, g))

GroupStop ==
    \E g \in Groups :
        /\ load_novel(groups, g).status = "collecting"
        /\ GroupStep("cn_stop", g, stop(groups, g))

GroupDelete == \E g \in Groups : GroupStep("cn_delete", g, reset(groups, g))

GroupReset == \E g \in Groups : GroupStep("cmd_reset", g, reset_all(groups, g))

NextGroups ==
    \/ cn_setting
    \/ GroupStart
    \/ GroupStop
    \/ GroupDelete
    \/ GroupReset

SpecGroups == InitGroups /\ [][NextGroups]_vars

\* C32: a command handled for one group leaves the chat-novel document of
\* every other group, on disk and as that group loads it, as it was; and
\* the document of a group holds no setting another group added.
C32_OwnSettings ==
    \A g \in DOMAIN groups.files :
        chat_novel_exists(groups, g) =>
            \A i \in 1..Len(groups.files[g][1].custom_settings) :
                groups.files[g][1].custom_settings[i] = g

C32_IsolatedStep ==
    \A g \in Groups :
        (last'.op \in {"cn_setting", "cn_start", "cn_stop", "cn_delete", "cmd_reset"}
         /\ last'.group = g)
            => \A h \in Groups \ {g} :
                   /\ groups'.files[h] = groups.files[h]
                   /\ load_novel(groups', h) = load_novel(groups, h)

C32_Isolated == []C32_OwnSettings /\ [][C32_IsolatedStep]_vars

\* The part that holds: no command writes the file of another group.
C32_FilesStep ==
    \A g \in Groups :
        (last'.op \in {"cn_setting", "cn_start", "cn_stop", "cn_delete", "cmd_reset"}
         /\ last'.group = g)
            => \A h \in Groups \ {g} : groups'.files[h] = groups.files[h]

C32_Files == [][C32_FilesStep]_vars

\* ------------------------------------------------- one save, step by step
\* safe_json_save on one document: disk.target is the document, disk.tmp the
\* file beside it with the suffix .tmp; a file is absent, holds a whole
\* document (complete) or the beginning of one (partial). inflight holds the
\* call in progress: its place and the document it was given. The process may
\* stop at any place, and every file operation may raise OSError.
TmpFile == "tmp"
Complete(data) == [state |-> "complete", data |-> data]
Partial(data) == [state |-> "partial", data |-> data]
Saving(at, data) == <<[op |-> "safe_json_save", at |-> at, data |-> data]>>

SaveMoves(at, d) ==
    /\ inflight # <<>>
    /\ inflight' = (IF at = "done" THEN <<>> ELSE Saving(at, inflight[1].data))
    /\ disk' = d
    /\ UNCHANGED <<ideaVars, pc, chatVars, book, groups>>

\* Line 39-40: the call, up to the path of the temporary file.
SaveCall ==
    \E data \in 1..MaxContent :
        /\ inflight = <<>>
        /\ inflight' = Saving("write", data)
        /\ last' = Did("safe_json_save")
        /\ UNCHANGED <<ideaVars, pc, chatVars, book, groups, disk>>

\* Line 42: write_text opens the temporary file, which empties it, and
\* writes the text, not at once.
WriteBegin ==
    /\ inflight # <<>> /\ inflight[1].at = "write"
    /\ SaveMoves("writing", [disk EXCEPT ![TmpFile] = Partial(inflight[1].data)])
    /\ last' = Did("write_text")

WriteEnd ==
    /\ inflight # <<>> /\ inflight[1].at = "writing"
    /\ SaveMoves("replace", [disk EXCEPT ![TmpFile] = Complete(inflight[1].data)])
    /\ last' = Did("write_text")

\* Line 46: the rename, in one step of the file system.
Replace ==
    /\ inflight # <<>> /\ inflight[1].at = "replace"
    /\ SaveMoves("done", [disk EXCEPT !.target = disk[TmpFile], ![TmpFile] = Absent])
    /\ last' = Did("replace")

\* Line 47: OSError, out of the open, the write or the rename.
SaveRaises ==
    /\ inflight # <<>> /\ inflight[1].at \in {"write", "writing", "replace"}
    /\ SaveMoves("except", disk)
    /\ last' = Did("OSError")

\* Lines 49-51: the temporary file is removed, unless that fails too, and
\* the error is raised again.
SaveExcept ==
    \E removed \in BOOLEAN :
        /\ inflight # <<>> /\ inflight[1].at = "except"
        /\ SaveMoves("done", IF removed THEN [disk EXCEPT ![TmpFile] = Absent] ELSE disk)
        /\ last' = Did("raise")

\* The process stops where it is.
Crash ==
    /\ inflight # <<>>
    /\ SaveMoves("done", disk)
    /\ last' = Did("crash")

NextSave ==
    \/ SaveCall
    \/ WriteBegin
    \/ WriteEnd
    \/ Replace
    \/ SaveRaises
    \/ SaveExcept
    \/ Crash

SpecSave == InitGroups /\ [][NextSave]_vars

\* C33: the document is never a partial one, and a step of safe_json_save
\* (a failing or a last one included) leaves it as it was or makes it the
\* whole document the call was given.
C33_Whole == disk.target.state # "partial"

C33_AtomicStep ==
    \/ disk'.target = disk.target
    \/ inflight # <<>> /\ disk'.target = Complete(inflight[1].data)

C33_Atomic == []C33_Whole /\ [][C33_AtomicStep]_vars

\* The process stopped in the middle of the write of a second document: the
\* first is whole in place.
C33_Witness ==
    /\ last.op = "crash"
    /\ inflight = <<>>
    /\ disk.tmp.state = "partial"
    /\ disk.target.state = "complete"
    /\ disk.target.data # disk.tmp.data

\* ------------------------------------------- calls awaiting the backend
\* The handlers are coroutines and nothing in the plugin serializes them: a
\* call that awaits the backend has its documents loaded already, and other
\* handlers of the group run until the answer is there. inflight holds the
\* calls that wait, each with the documents it loaded.
MaxFlights == 1

Awaiting(op, nv, ms, n) == [op |-> op, novel |-> nv, messages |-> ms, n |-> n]

FlightSenders == {"a"}

Completed(call, saved) ==
    [op |-> "completed", applied |-> saved, call |-> call]

\* generate_chapter up to its chapter request (lines 363-441): the documents
\* are loaded, the new participants mapped and stored, the novel loaded again.
GenerateBegin(nv, ms, mapOut) ==
    LET mapped == IF NewParticipants(nv, ms) = {} THEN nv
                  ELSE map_new_characters(nv, NewParticipants(nv, ms), mapOut)
    IN  /\ Len(inflight) < MaxFlights
        /\ Len(nv.chapters) < MaxChapters
        /\ ms # <<>>
        /\ novel' = mapped
        /\ inflight' = Append(inflight, Awaiting("generate_chapter", mapped, ms, 0))

\* on_group_message with calls in flight: add_message, then at the threshold
\* and past the gate the filter or the generation begins.
FlightMessage ==
    \E sender \in FlightSenders, gate \in {"sufficient", "insufficient"},
       mapOut \in ChatMapOuts :
        /\ pc.at = "idle"
        /\ is_collecting(novel)
        /\ sent < MaxMsgs
        /\ LET ms == add_message_buffer(messages, sender, sent + 1)
               nv == add_message_novel(novel, sender)
           IN  /\ messages' = ms
               /\ IF ~Triggered(Len(ms), cfg.threshold)
                  THEN /\ gate = "sufficient" /\ mapOut = NoMap
                       /\ novel' = nv
                       /\ UNCHANGED inflight
                  ELSE IF ~evaluate_quality(ms, gate)
                  THEN /\ mapOut = NoMap
                       /\ novel' = nv
                       /\ IF cfg.filter_enabled
                          THEN /\ Len(inflight) < MaxFlights
                               /\ inflight' = Append(inflight,
                                                  Awaiting("filter_messages", nv, ms, 0))
                          ELSE UNCHANGED inflight
                  ELSE GenerateBegin(nv, ms, mapOut)
        /\ sent' = sent + 1
        /\ last' = ChatDid("on_group_message")
        /\ UNCHANGED <<groups, disk, ideaVars, pc, cfg, book>>

FlightGenerateNow ==
    \E mapOut \in ChatMapOuts :
        /\ pc.at = "idle"
        /\ GenerateBegin(novel, messages, mapOut)
        /\ last' = ChatDid("cn_generate_now")
        /\ UNCHANGED <<groups, disk, ideaVars, pc, messages, sent, cfg, book>>

\* rewrite_chapter up to its request (lines 665-714).
FlightRewrite ==
    \E ch_num \in 1..MaxChapters :
        /\ pc.at = "idle"
        /\ Len(inflight) < MaxFlights
        /\ \E i \in 1..Len(novel.chapters) : novel.chapters[i].number = ch_num
        /\ inflight' = Append(inflight, Awaiting("rewrite_chapter", novel, <<>>, ch_num))
        /\ last' = ChatDid("cn_rewrite")
        /\ UNCHANGED <<groups, disk, ideaVars, pc, novel, messages, sent, cfg, book>>

Without(s, i) == [j \in 1..(Len(s) - 1) |-> IF j < i THEN s[j] ELSE s[j + 1]]

\* The answer of a call in flight arrives: what the call loaded before the
\* request, changed by the answer, is saved.
GenerateEnd(call, genOut) ==
    LET g == generate_chapter(call.novel, call.messages, get_force_ending(call.novel),
                              NoMap, genOut, "none")
    IN  IF g.ret = "chapter"
        THEN /\ novel' = g.novel
             /\ messages' = g.messages
             /\ last' = Completed(call, TRUE)
        ELSE /\ UNCHANGED <<novel, messages>>
             /\ last' = Completed(call, FALSE)

FilterEnd(call, filterOut) ==
    IF filterOut.kind = "ok" /\ Filtered(call.messages, filterOut.keep_indices) # <<>>
    THEN /\ messages' = filter_messages(call.messages, filterOut)
         /\ last' = Completed(call, TRUE)
         /\ UNCHANGED novel
    ELSE /\ UNCHANGED <<novel, messages>>
         /\ last' = Completed(call, FALSE)

RewriteEnd(call, out) ==
    IF out.kind # "fail"
       /\ \E i \in 1..Len(call.novel.chapters) : call.novel.chapters[i].number = call.n
    THEN /\ novel' = rewrite_chapter(call.novel, call.n, out, "none")
         /\ last' = Completed(call, TRUE)
         /\ UNCHANGED messages
    ELSE /\ UNCHANGED <<novel, messages>>
         /\ last' = Completed(call, FALSE)

FlightGenerated ==
    \E i \in 1..Len(inflight), genOut \in ChatGenOuts :
        /\ inflight[i].op = "generate_chapter"
        /\ GenerateEnd(inflight[i], genOut)
        /\ inflight' = Without(inflight, i)
        /\ UNCHANGED <<groups, disk, ideaVars, pc, sent, cfg, book>>

FlightFiltered ==
    \E i \in 1..Len(inflight) :
        \E filterOut \in FilterOuts(Len(inflight[i].messages)) :
            /\ inflight[i].op = "filter_messages"
            /\ FilterEnd(inflight[i], filterOut)
            /\ inflight' = Without(inflight, i)
            /\ UNCHANGED <<groups, disk, ideaVars, pc, sent, cfg, book>>

FlightRewritten ==
    \E i \in 1..Len(inflight), out \in ChatGenOuts :
        /\ inflight[i].op = "rewrite_chapter"
        /\ RewriteEnd(inflight[i], out)
        /\ inflight' = Without(inflight, i)
        /\ UNCHANGED <<groups, disk, ideaVars, pc, sent, cfg, book>>

FlightLock == \E name \in FlightSenders : cn_lock_char(name)

NextFlight ==
    \/ cn_start
    \/ cn_stop
    \/ cn_ending
    \/ FlightLock
    \/ FlightMessage
    \/ FlightGenerateNow
    \/ FlightRewrite
    \/ FlightGenerated
    \/ FlightFiltered
    \/ FlightRewritten

SpecFlight == InitChat /\ [][NextFlight]_vars

Holds(s, x) == \E i \in 1..Len(s) : s[i] = x

\* C34: when a generation or a filtering that was in flight completes, every
\* message that add_message appended after the call loaded the buffer is
\* still in the buffer.
C34_KeptStep ==
    (last'.op = "completed" /\ last'.call.op \in {"generate_chapter", "filter_messages"})
        => \A i \in 1..Len(messages) :
               ~Holds(last'.call.messages, messages[i]) => Holds(messages', messages[i])

C34_Kept == [][C34_KeptStep]_vars

\* C36: when a generation or a rewrite that was in flight saves the novel,
\* what the other handlers wrote to it after the call loaded it is still
\* there: the status, the force_ending flag, the contributors, the locks of
\* the characters and the chapters.
C36_PresentStep ==
    (/\ last'.op = "completed"
     /\ last'.applied
     /\ last'.call.op \in {"generate_chapter", "rewrite_chapter"})
        => LET was == last'.call.novel IN
           /\ novel.status # was.status => novel'.status = novel.status
           /\ (novel.force_ending /\ ~was.force_ending) => novel'.force_ending
           /\ \A i \in 1..Len(novel.contributors) :
                  ~Holds(was.contributors, novel.contributors[i])
                      => Holds(novel'.contributors, novel.contributors[i])
           /\ \A i \in 1..Len(novel.characters) :
                  (i <= Len(was.characters)
                   /\ novel.characters[i].locked # was.characters[i].locked)
                      => /\ i <= Len(novel'.characters)
                         /\ novel'.characters[i].locked = novel.characters[i].locked
           /\ \A i \in 1..Len(novel.chapters) :
                  ~Holds(was.chapters, novel.chapters[i])
                      => Holds(novel'.chapters, novel.chapters[i])

C36_Present == [][C36_PresentStep]_vars

\* ------------------------------------------- scorings awaiting the judges
\* cmd_idea with other handlers of the group running while score_idea and
\* check_conflict await their calls: each keeps the list of ideas it loaded
\* before the first call and saves that list afterwards.
Scoring(op, id, data) == [op |-> op, id |-> id, data |-> data]

\* cmd_idea up to the first judge's call: submit_idea, then score_idea loads.
ScoringSubmit ==
    \E content \in Contents :
        /\ pc.at = "idle"
        /\ Len(ideas) < MaxIdeas
        /\ Len(inflight) < MaxFlights
        /\ ideas' = submit_idea(ideas, content)
        /\ inflight' = Append(inflight, Scoring("score_idea", Len(ideas) + 1,
                                                 submit_idea(ideas, content)))
        /\ last' = Did("submit_idea")
        /\ UNCHANGED <<groups, disk, votes, now, pc, chatVars, book>>

\* The judges have answered: score_idea saves, and cmd_idea rejects the idea
\* or goes on to check_conflict, which loads the list.
ScoringScored ==
    \E i \in 1..Len(inflight), outs \in GovOuts :
        LET call == inflight[i]
            saved == score_idea(call.data, call.id, outs)
        IN  /\ call.op = "score_idea"
            /\ IF ScoreRaises(outs)
               THEN /\ UNCHANGED ideas
                    /\ inflight' = Without(inflight, i)
                    /\ last' = Completed(call, FALSE)
               ELSE IF saved[FindById(saved, call.id)].weighted_avg < 10 * ScoreThreshold
               THEN /\ ideas' = reject_idea(saved, call.id)
                    /\ inflight' = Without(inflight, i)
                    /\ last' = Completed(call, TRUE)
               ELSE /\ ideas' = saved
                    /\ inflight' = [inflight EXCEPT
                                       ![i] = Scoring("check_conflict", call.id, saved)]
                    /\ last' = Completed(call, TRUE)
            /\ UNCHANGED <<groups, disk, votes, now, pc, chatVars, book>>

\* The conflict check has answered: check_conflict saves when the answer
\* parsed, and cmd_idea opens the vote or approves the idea.
ScoringChecked ==
    \E i \in 1..Len(inflight), conflict \in ConflictOutcomes :
        LET call == inflight[i]
            saved == IF conflict.kind = "ok"
                     THEN check_conflict(call.data, call.id, conflict)
                     ELSE ideas
        IN  /\ call.op = "check_conflict"
            /\ IF ConflictReport(conflict).has_conflict
               THEN /\ ideas' = saved
                    /\ votes' = IF FindById(saved, call.id) = 0 THEN votes
                                ELSE create_vote(votes,
                                         ConflictOptions(ConflictReport(conflict)),
                                         call.id, now)
               ELSE /\ ideas' = approve_idea(saved, call.id)
                    /\ UNCHANGED votes
            /\ inflight' = Without(inflight, i)
            /\ last' = Completed(call, conflict.kind = "ok")
            /\ UNCHANGED <<groups, disk, now, pc, chatVars, book>>

\* cmd_force_idea: submit_idea and approve_idea, with no call between them.
cmd_force_idea ==
    \E content \in Contents :
        /\ pc.at = "idle"
        /\ Len(ideas) < MaxIdeas
        /\ ideas' = approve_idea(submit_idea(ideas, content), Len(ideas) + 1)
        /\ last' = Did("cmd_force_idea")
        /\ UNCHANGED <<otherVars, votes, now, pc, chatVars, book>>

NextScoring ==
    \/ ScoringSubmit
    \/ ScoringScored
    \/ ScoringChecked
    \/ cmd_force_idea
    \/ cmd_force_approve
    \/ CmdVote
    \/ cmd_close_vote
    \/ Tick

SpecScoring == Init /\ [][NextScoring]_vars

\* C35: when score_idea or check_conflict saves, every idea that was stored
\* meanwhile is still stored, and every idea whose status changed meanwhile
\* still has that status (the idea of the call itself aside).
C35_StoredStep ==
    (last'.op = "completed" /\ last'.applied)
        => LET was == last'.call.data IN
           \A k \in 1..Len(ideas) :
               (/\ ideas[k].id # last'.call.id
                /\ \/ k > Len(was)
                   \/ ideas[k].status # was[k].status)
                   => /\ k <= Len(ideas')
                      /\ ideas'[k].id = ideas[k].id
                      /\ ideas'[k].status = ideas[k].status

C35_Stored == [][C35_StoredStep]_vars

\* ------------------------------------------------- the end of a conflict
\* The commands of Spec with the handlers running on: a cmd_idea that has
\* begun takes its next step, since nothing but the awaited call stands
\* between two of its saves. Which commands the users send is left open.
SpecLive ==
    /\ Init
    /\ [][Next]_vars
    /\ WF_vars(GovIdeaScore)
    /\ WF_vars(IdeaReject)
    /\ WF_vars(IdeaCheck)
    /\ WF_vars(IdeaVote)
    /\ WF_vars(IdeaApprove)

InConflict(is, i) == i <= Len(is) /\ is[i].status = "conflict"

Settled(is, i) == i <= Len(is) /\ is[i].status \in {"approved", "rejected"}

\* The idea has an open vote that is due.
DueVote(i) ==
    \E k \in 1..Len(votes) : votes[k].related_idea_id = i /\ Expired(votes[k], now)

\* The idea's vote is the latest open one.
LatestVote(i) ==
    /\ get_latest_active_vote(votes) # 0
    /\ votes[FindById(votes, get_latest_active_vote(votes))].related_idea_id = i

C37_NoClosedConflict ==
    \A k \in 1..Len(votes) :
        votes[k].status = "closed" => ~InConflict(ideas, votes[k].related_idea_id)

C37_CommandStep ==
    \A i \in 1..MaxIdeas :
        /\ (last'.op = "cmd_vote" /\ InConflict(ideas, i) /\ DueVote(i))
               => Settled(ideas', i)
        /\ (last'.op = "cmd_close_vote" /\ InConflict(ideas, i) /\ LatestVote(i))
               => Settled(ideas', i)

\* The idea has an open vote.
OpenVote(i) ==
    \E k \in 1..Len(votes) : votes[k].related_idea_id = i /\ votes[k].status = "open"

\* C37: no idea is in conflict while a vote about it is closed; every idea
\* in conflict comes to have an open vote (or is approved or rejected); and
\* the vote command sent when that vote is due, like the close-vote command
\* sent when that vote is the latest open one, leaves the idea approved or
\* rejected.
C37_Settles ==
    /\ []C37_NoClosedConflict
    /\ [][C37_CommandStep]_vars
    /\ \A i \in 1..MaxIdeas :
           InConflict(ideas, i) ~> (OpenVote(i) \/ Settled(ideas, i))

\* The vote command, sent after the deadline, has closed the vote of an idea
\* that was in conflict and left the idea approved or rejected.
C37_Witness ==
    /\ last.op = "cmd_vote"
    /\ last.applied
    /\ last.vote.status = "closed"
    /\ InConflict(last.before, last.vote.related_idea_id)
    /\ Settled(ideas, last.vote.related_idea_id)

\* C38: a closed vote with no ballot has the key of its first option as the
\* winner, and when cmd_vote (by expiry) or cmd_close_vote applies the result
\* of such a vote about a stored idea, the idea is approved.
C38_FirstOption ==
    \A k \in 1..Len(votes) :
        (votes[k].status = "closed" /\ Voters(votes[k]) = {})
            => /\ votes[k].result.total_votes = 0
               /\ votes[k].result.winner = votes[k].options[1].key
               /\ votes[k].result.winner = "A"

C38_UnvotedStep ==
    (/\ last'.op \in {"cmd_vote", "cmd_close_vote"}
     /\ last'.applied
     /\ Voters(last'.vote) = {}
     /\ FindById(last'.before, last'.vote.related_idea_id) # 0)
        => /\ last'.vote.status = "closed"
           /\ ideas' = last'.after
           /\ ideas'[FindById(ideas', last'.vote.related_idea_id)].status = "approved"

C38_Unvoted == []C38_FirstOption /\ [][C38_UnvotedStep]_vars

\* A vote nobody voted in ran out, and the vote command approved its idea.
C38_Witness ==
    /\ last.op = "cmd_vote"
    /\ last.applied
    /\ Voters(last.vote) = {}
    /\ last.vote.result.winner = "A"
    /\ InConflict(last.before, last.vote.related_idea_id)
    /\ ideas[last.vote.related_idea_id].status = "approved"

\* The bodies of the labelled sections of an answer: the text before the
\* first label is one of them only when there is some.
Sections(segs) == IF segs # <<>> /\ segs[1] = "" THEN Tail(segs) ELSE segs

\* C39: in a user-guided revision of a chapter with more than one scene, when
\* the answer holds one section with a body for each scene, scene i has the
\* body of section i as its content afterwards, also when the answer begins
\* with a label.
C39_PartitionStep ==
    (last'.op = "revise_chapter_with_user_input" /\ last'.ret = "chapter") =>
        LET old == book.chapters[last'.c].scenes
            new == book'.chapters[last'.c].scenes
            bodies == Sections(last'.out.segs)
        IN  (/\ Len(old) > 1
             /\ Len(bodies) = Len(old)
             /\ \A i \in 1..Len(bodies) : bodies[i] # "")
                => \A i \in 1..Len(old) : new[i].content = bodies[i]

C39_Partition == [][C39_PartitionStep]_vars
====
